---- MODULE Spec2Model ----
(***************************************************************************)
(* ORBIT workflow engine: the executor (core/executor.py), the run manager *)
(* (core/run_manager.py), the manual run / stop endpoints (main.py), the   *)
(* scheduler callback (core/scheduler.py) and the run journal              *)
(* (core/run_logger.py), as one state machine.                             *)
(*                                                                         *)
(* The host is a single asyncio event loop: a coroutine runs without       *)
(* interruption from one suspension to the next, so every action below is  *)
(* the stretch of code between two suspensions.  The awaits on the run     *)
(* manager's lock never suspend (the lock is never held across an await),  *)
(* the awaits that do suspend are `await request.json()`, `await task`     *)
(* and the await of an action handler inside asyncio.wait_for.             *)
(*                                                                         *)
(* Strings are sequences of tokens, so that strip / lower / `in` / string  *)
(* concatenation are computed and not assumed.                             *)
(***************************************************************************)
EXTENDS Integers, Sequences, FiniteSets, TLC

VARIABLES
    disk,       \* the definition file workflows/<name>.yaml, or NoWorkflow
    registry,   \* ActionRegistry._actions: the registered action types
    tasks,      \* RunManager._tasks: workflow name -> registered task
    st,         \* one record per invocation: an HTTP run request or a cron firing
    journal,    \* runs/YYYYMMDD.jsonl: the appended RunLogs, in order
    stops,      \* one record per POST /api/workflows/{name}/stop request
    retry,      \* one call of a function wrapped by retry_async
    sub,        \* one subworkflow step: the run that holds it and the action's call
    wfdir,      \* the files of the directory workflows/ the scheduler scans
    sched,      \* WorkflowScheduler: _registered_jobs and the jobs of its scheduler
    fire,       \* one job of the scheduler: the firings of _execute_workflow
    runs,       \* RunLogger: the files of runs/, the clock, the last result returned
    ldr,        \* WorkflowLoader and the save endpoint: the file of one name, the last result
    rnd,        \* one call of render_params: the parameters, the context, the result
    wh          \* one call of Executor._evaluate_when: the condition, the context, the result

\* The variables of the run components, and those of the other components
coreVars == <<disk, registry, tasks, st, journal>>
extVars == <<stops, retry, sub, wfdir, sched, fire, runs, ldr, rnd, wh>>

vars == <<disk, registry, tasks, st, journal, extVars>>

----------------------------------------------------------------------------
(* Bounds *)

NumManual == 3      \* manual run requests (POST /api/workflows/{name}/run)
NumSched == 1       \* firings of the workflow's cron job
MaxSteps == 3       \* longest workflow of the executor specification
MaxConcSteps == 1   \* longest workflow of the concurrency specifications
MaxAttempts == 3    \* largest max_attempts given to retry_async
MaxChain == 2       \* longest _call_chain a subworkflow call is given

DEFAULT_STEP_TIMEOUT == 300
STOP_RETRIES == 10  \* main.py: `for _ in range(10)` of stop_workflow

Manual == 1..NumManual
Sched == (NumManual + 1)..(NumManual + NumSched)
Starters == Manual \cup Sched
TwoStarts == {1, 2}

Stops == {1}        \* the stop requests of the run-manager specification

WfName == "wf"
Names == {WfName}
NoTask == 0

----------------------------------------------------------------------------
(* Values: JSON-like values of params, results and conditions *)

NoneV == [t |-> "none", s |-> <<>>]
AbsentV == [t |-> "absent", s |-> <<>>]     \* key not present in a dict
StrV(s) == [t |-> "str", s |-> s]
IntV(s) == [t |-> "int", s |-> s]           \* s: the digits

\* An entry of the run context (or the value a handler returns)
NoKey == [kind |-> "nokey", text |-> AbsentV]
NoneRes == [kind |-> "none", text |-> NoneV]
DictRes(v) == [kind |-> "dict", text |-> v]      \* {"text": v}, or {} for AbsentV
Builtin(tok) == [kind |-> "builtin", text |-> StrV(<<tok>>)]

BuiltinKeys == {"run_id", "workflow", "now", "base_dir", "today", "yesterday",
                "tomorrow", "today_ymd", "now_ymd_hms"}
StepIds == {"a", "b"}
CtxKeys == StepIds \cup BuiltinKeys

----------------------------------------------------------------------------
(* String primitives *)

IsSpace(c) == c = " "

LowerTok(c) == IF c = "Hi" THEN "hi" ELSE IF c = "BYE" THEN "bye" ELSE c

lower(s) == [i \in DOMAIN s |-> LowerTok(s[i])]

RECURSIVE lstrip(_)
lstrip(s) == IF s # <<>> /\ IsSpace(Head(s)) THEN lstrip(Tail(s)) ELSE s

RECURSIVE rstrip(_)
rstrip(s) ==
    IF s # <<>> /\ IsSpace(s[Len(s)]) THEN rstrip(SubSeq(s, 1, Len(s) - 1)) ELSE s

strip(s) == rstrip(lstrip(s))

\* Python's `right in left` for strings
Contains(left, right) ==
    \E i \in 1..(Len(left) + 1) :
        /\ i + Len(right) - 1 <= Len(left)
        /\ SubSeq(left, i, i + Len(right) - 1) = right

\* Python's str(v) and repr(v): a list is written with the repr of its items,
\* a dict (its items in insertion order) with the repr of its keys and values
RECURSIVE ToStr(_), JoinRepr(_), JoinItems(_)
Repr(v) == IF v.t = "str" THEN <<"'">> \o v.s \o <<"'">> ELSE ToStr(v)
JoinRepr(q) ==
    IF q = <<>> THEN <<>>
    ELSE Repr(Head(q)) \o (IF Len(q) = 1 THEN <<>> ELSE <<", ">> \o JoinRepr(Tail(q)))
JoinItems(q) ==
    IF q = <<>> THEN <<>>
    ELSE <<"'", Head(q)[1], "'", ": ">> \o Repr(Head(q)[2])
            \o (IF Len(q) = 1 THEN <<>> ELSE <<", ">> \o JoinItems(Tail(q)))
ToStr(v) ==
    CASE v.t = "none" -> <<"None">>
      [] v.t = "list" -> <<"[">> \o JoinRepr(v.s) \o <<"]">>
      [] v.t = "dict" -> <<"{">> \o JoinItems(v.s) \o <<"}">>
      [] OTHER -> v.s

----------------------------------------------------------------------------
(* core/templating.py *)

\* A parameter string: a literal, "{{ ref.text }}" alone, or lit + "{{ ref.text }}"
LitT(s) == [kind |-> "lit", lit |-> s, ref |-> ""]
SingleT(ref) == [kind |-> "single", lit |-> <<>>, ref |-> ref]
EmbedT(s, ref) == [kind |-> "embed", lit |-> s, ref |-> ref]

TemplateText(tpl) ==
    IF tpl.kind = "lit" THEN tpl.lit
    ELSE tpl.lit \o <<"{{", tpl.ref, ".text", "}}">>

\* Jinja2's evaluation of `ref.text`: "error" is UndefinedError (ref itself is
\* undefined), "undefined" is an Undefined value (no such attribute or item).
EvalExpr(ref, context) ==
    LET e == context[ref] IN
    IF e.kind = "nokey" THEN [r |-> "error", v |-> NoneV]
    ELSE IF e.kind = "dict" /\ e.text.t # "absent" THEN [r |-> "value", v |-> e.text]
    ELSE [r |-> "undefined", v |-> NoneV]

\* The index of the first "}}" of a text, 0 if it has none
RECURSIVE CloseAt(_, _)
CloseAt(s, i) ==
    IF i > Len(s) THEN 0 ELSE IF s[i] = "}}" THEN i ELSE CloseAt(s, i + 1)

\* The expressions of the grammar are `name.text`
IsExpr(expr, context) == Len(expr) = 2 /\ expr[1] \in DOMAIN context /\ expr[2] = ".text"

\* template.render: the literal text and the str() of each expression's value
\* (nothing for an Undefined); a syntax error or an UndefinedError fails the
\* whole rendering.  The only directives considered are unknown tags.
RECURSIVE Render(_, _)
Render(s, context) ==
    IF s = <<>> THEN [ok |-> TRUE, s |-> <<>>]
    ELSE IF Head(s) = "{%" THEN [ok |-> FALSE, s |-> <<>>]
    ELSE IF Head(s) = "{{"
    THEN LET close == CloseAt(s, 2)
             expr == strip(SubSeq(s, 2, close - 1))
         IN  IF close = 0 \/ ~IsExpr(expr, context) THEN [ok |-> FALSE, s |-> <<>>]
             ELSE LET ev == EvalExpr(expr[1], context)
                      rest == Render(SubSeq(s, close + 1, Len(s)), context)
                  IN  IF ev.r = "error" \/ ~rest.ok THEN [ok |-> FALSE, s |-> <<>>]
                      ELSE [ok |-> TRUE,
                            s |-> (IF ev.r = "undefined" THEN <<>> ELSE ToStr(ev.v)) \o rest.s]
    ELSE LET rest == Render(Tail(s), context)
         IN  IF rest.ok THEN [ok |-> TRUE, s |-> <<Head(s)>> \o rest.s] ELSE rest

HasToken(s, tok) == \E i \in DOMAIN s : s[i] = tok

\* line 202: the stripped text starts with "{{", ends with "}}", has no "{%"
IsNeverSingle(stripped) == FALSE
IsSingle(stripped) ==
    /\ Len(stripped) >= 2
    /\ Head(stripped) = "{{" /\ stripped[Len(stripped)] = "}}"
    /\ ~HasToken(stripped, "{%")

\* render_string on the text of the parameter
render_text(template_str, context) ==
    IF ~HasToken(template_str, "{{") /\ ~HasToken(template_str, "{%")
    THEN StrV(template_str)
    ELSE LET stripped == strip(template_str)
             expr == strip(SubSeq(stripped, 2, Len(stripped) - 1))
             rendered == Render(template_str, context)
             normal == IF rendered.ok THEN StrV(rendered.s) ELSE StrV(template_str)
         IN  IF IsSingle(stripped) /\ IsExpr(expr, context)
             THEN LET ev == EvalExpr(expr[1], context) IN
                  IF ev.r = "error" THEN normal
                  ELSE ev.v     \* compile_expression: the typed value, None if undefined
             ELSE normal

render_string(tpl, context) == render_text(TemplateText(tpl), context)

\* params is {"message": <template>}
render_value(value, context) == [message |-> render_string(value.message, context)]

render_params(params, context) == render_value(params, context)

----------------------------------------------------------------------------
(* core/models.py *)

\* StepCondition; NoWhen is `when: None`
NoWhen ==
    [step |-> "", field |-> "", equals |-> NoneV, match |-> "", trim |-> FALSE,
     case_insensitive |-> FALSE]
StepCondition(step, field, equals, match, trim, ci) ==
    [step |-> step, field |-> field, equals |-> equals, match |-> match,
     trim |-> trim, case_insensitive |-> ci]

Step(id, type, params, when) ==
    [id |-> id, type |-> type, params |-> [message |-> params], when |-> when]

NoWorkflow == [name |-> "", steps |-> <<>>]
Workflow(steps) == [name |-> WfName, steps |-> steps]

\* RunLog and the step records of RunLog.steps
RunLog(run_id, workflow) ==
    [run_id |-> run_id, workflow |-> workflow, status |-> "running",
     steps |-> <<>>, error |-> NoneV, ended |-> FALSE]
NoRunLog == [RunLog(0, "") EXCEPT !.status = "none"]

SkippedRecord(step, reason) ==
    [id |-> step.id, type |-> step.type, status |-> "skipped", result |-> NoKey,
     reason |-> reason, when |-> step.when, error |-> NoneV]
SuccessRecord(step, result) ==
    [id |-> step.id, type |-> step.type, status |-> "success", result |-> result,
     reason |-> <<>>, when |-> NoWhen, error |-> NoneV]
FailedRecord(step, error) ==
    [id |-> step.id, type |-> step.type, status |-> "failed", result |-> NoKey,
     reason |-> <<>>, when |-> NoWhen, error |-> StrV(error)]

----------------------------------------------------------------------------
(* core/executor.py *)

normalize_string(value, trim, case_insensitive) ==
    LET text == IF trim THEN strip(value) ELSE value
    IN IF case_insensitive THEN lower(text) ELSE text

\* dict.get(key): None when the key is missing or holds None
ContextGet(context, key) ==
    IF key \in DOMAIN context /\ context[key].kind # "nokey"
    THEN context[key] ELSE NoneRes

\* step_result.get(field) for a dict, getattr(step_result, field, None) otherwise
FieldGet(step_result, field) ==
    IF step_result.kind = "dict" /\ field = "text" /\ step_result.text.t # "absent"
    THEN step_result.text ELSE NoneV

evaluate_when(condition, context) ==
    LET step_result == ContextGet(context, condition.step)
        actual == FieldGet(step_result, condition.field)
        expected == condition.equals
    IN
    IF step_result.kind = "none"
    THEN [matched |-> FALSE, reason |-> <<"condition_step_missing:", condition.step>>]
    ELSE IF actual.t = "none"
    THEN [matched |-> FALSE, reason |-> <<"condition_field_missing:", condition.field>>]
    ELSE IF actual.t = "str" /\ expected.t = "str"
    THEN LET left == normalize_string(actual.s, condition.trim, condition.case_insensitive)
             right == normalize_string(expected.s, condition.trim, condition.case_insensitive)
         IN [matched |-> IF condition.match = "contains" THEN Contains(left, right)
                         ELSE left = right,
             reason |-> <<>>]
    ELSE [matched |-> actual = expected, reason |-> <<>>]

\* (mutant) the reason of _evaluate_when is recorded as it is
SkipReasonRaw(reason) == reason

\* skip_reason = reason or "condition_not_met"
SkipReason(reason) == IF reason = <<>> THEN <<"condition_not_met">> ELSE reason

\* (mutant) the message does not name the type
UnknownActionErrorNoType(step_type) == <<"Unknown action type: ">>

UnknownActionError(step_type) == <<"Unknown action type: ", step_type>>
TimeoutError(step_timeout) ==
    <<"Step execution timed out after ", ToString(step_timeout), " seconds">>

\* Executor.run, lines 92-102: the context of a new run
InitialContext ==
    [k \in CtxKeys |-> IF k \in BuiltinKeys THEN Builtin(k) ELSE NoKey]

\* Executor.run, line 146: context[step.id] = step_result.get("result", {})
Publish(context, step, step_result) ==
    [context EXCEPT ![step.id] = step_result.result]

\* Executor.run, lines 157-166: the run returns its RunLog
RunEnd(r) == [r EXCEPT !.run_log.ended = TRUE, !.task = "finished", !.inflight = FALSE]

\* (mutant) the failed step's error is not copied to the run
StepFailedNoError(r, rec) ==
    RunEnd([r EXCEPT !.run_log.steps = Append(@, rec),
                     !.run_log.status = "failed"])

\* (mutant) the status of the run is left as it was
StepFailedStatusKept(r, rec) ==
    RunEnd([r EXCEPT !.run_log.steps = Append(@, rec),
                     !.run_log.error = rec.error])

\* Executor.run, lines 138-150: a step result is appended; a failed one ends the
\* run as failed, another one is published and the loop goes on
StepFailed(r, rec) ==
    RunEnd([r EXCEPT !.run_log.steps = Append(@, rec),
                     !.run_log.status = "failed",
                     !.run_log.error = rec.error])

\* (mutant) the loop does not move on to the next step
StepSucceededStays(r, rec) ==
    [r EXCEPT !.run_log.steps = Append(@, rec),
              !.context = Publish(@, r.wf.steps[r.idx], rec),
              !.inflight = FALSE]

StepSucceeded(r, rec) ==
    [r EXCEPT !.run_log.steps = Append(@, rec),
              !.context = Publish(@, r.wf.steps[r.idx], rec),
              !.idx = @ + 1,
              !.inflight = FALSE]

\* Executor._execute_step, lines 198-220: lookup, then render, then invoke
Invoke(r) ==
    LET step == r.wf.steps[r.idx] IN
    [r EXCEPT !.inflight = TRUE,
              !.calls = Append(@, [idx |-> r.idx,
                                   params |-> render_params(step.params, r.context),
                                   context |-> r.context,
                                   outcome |-> "inflight"])]

\* Executor.run, lines 117-150: the loop from the current step up to the next
\* suspension (a handler is awaited) or to the end of the run
RECURSIVE RunLoop(_, _)
RunLoop(r, reg) ==
    IF r.idx > Len(r.wf.steps)
    THEN RunEnd([r EXCEPT !.run_log.status = "success"])
    ELSE LET step == r.wf.steps[r.idx]
             ev == evaluate_when(step.when, r.context)
         IN IF step.when # NoWhen /\ ~ev.matched
            THEN RunLoop([r EXCEPT !.run_log.steps =
                                       Append(@, SkippedRecord(step, SkipReason(ev.reason))),
                                   !.idx = @ + 1], reg)
            ELSE IF step.type \notin reg
            THEN StepFailed(r, FailedRecord(step, UnknownActionError(step.type)))
            ELSE Invoke(r)

\* Executor.run, lines 87-113, then the loop
RunStart(r, run_id, reg) ==
    RunLoop([r EXCEPT !.task = "running",
                      !.idx = 1,
                      !.context = InitialContext,
                      !.run_log = RunLog(run_id, r.wf.name)], reg)

SetOutcome(calls, outcome) == [calls EXCEPT ![Len(calls)].outcome = outcome]

\* Executor._execute_step, lines 222-247, and the rest of the loop: what the run
\* does when the awaited handler returns, raises or exceeds the deadline
HandlerReturns(r, result, reg) ==
    RunLoop(StepSucceeded([r EXCEPT !.calls = SetOutcome(@, "returned")],
                          SuccessRecord(r.wf.steps[r.idx], result)), reg)

HandlerRaises(r, msg) ==
    StepFailed([r EXCEPT !.calls = SetOutcome(@, "raised")],
               FailedRecord(r.wf.steps[r.idx], msg))

\* (mutant) the timeout is caught by the generic `except Exception` clause
HandlerTimesOutGeneric(r, step_timeout) ==
    StepFailed([r EXCEPT !.calls = SetOutcome(@, "cancelled_by_timeout")],
               FailedRecord(r.wf.steps[r.idx], <<>>))

HandlerTimesOut(r, step_timeout) ==
    StepFailed([r EXCEPT !.calls = SetOutcome(@, "cancelled_by_timeout")],
               FailedRecord(r.wf.steps[r.idx], TimeoutError(step_timeout)))

\* A CancelledError thrown into the run at its await: neither `except` clause of
\* _execute_step nor the one of run catches it (it is a BaseException), so the
\* task ends cancelled and returns no RunLog.
RunCancelled(r) ==
    [r EXCEPT !.task = "cancelled", !.inflight = FALSE,
              !.calls = IF r.inflight THEN SetOutcome(@, "cancelled") ELSE @]

----------------------------------------------------------------------------
(* core/run_manager.py *)

\* task.done()
Done(task) == task \in {"finished", "cancelled"}

\* `existing and not existing.done()` / `task and not task.done()`
LiveTask(table, s, name) == table[name] # NoTask /\ ~Done(s[table[name]].task)

\* (mutant) register stores the task whatever is registered
register_ok_unchecked(table, s, workflow_name) == TRUE

\* (mutant) any registered task blocks, finished or not
register_ok_absent(table, s, workflow_name) == table[workflow_name] = NoTask

\* RunManager.register: TRUE when the task is stored
register_ok(table, s, workflow_name) == ~LiveTask(table, s, workflow_name)

\* (mutant) register stores the task and reports afterwards
register_then_report(table, s, workflow_name, task) ==
    [table EXCEPT ![workflow_name] = task]

register(table, s, workflow_name, task) ==
    IF register_ok(table, s, workflow_name)
    THEN [table EXCEPT ![workflow_name] = task] ELSE table

\* (mutant) unregister leaves the table as it is
unregister_noop(table, workflow_name) == table

\* RunManager.unregister: self._tasks.pop(workflow_name, None)
unregister(table, workflow_name) == [table EXCEPT ![workflow_name] = NoTask]

is_running(table, s, workflow_name) == LiveTask(table, s, workflow_name)

----------------------------------------------------------------------------
(* core/loader.py and core/scheduler.py: the workflow directory and the jobs *)

\* The directory workflows/: one entry per file <stem>.<ext>
Stems == <<"a", "b">>
StemSet == {Stems[i] : i \in DOMAIN Stems}
FileIds == { <<"a", "yaml">>, <<"a", "yml">>, <<"b", "yaml">> }

\* The content of a file: none, one that does not parse or validate, or a
\* definition (its name field, its trigger, its cron expression, enabled)
NoFile == [kind |-> "none", name |-> "", trigger |-> "", cron_ok |-> FALSE,
           enabled |-> FALSE]
InvalidFile == [NoFile EXCEPT !.kind = "invalid"]
Definition(name, trigger, cron_ok, enabled) ==
    [kind |-> "workflow", name |-> name, trigger |-> trigger, cron_ok |-> cron_ok,
     enabled |-> enabled]
Definitions(names) ==
    { Definition(n, tr.t, tr.c, tr.e) :
        n \in names,
        tr \in { [t |-> "schedule", c |-> TRUE, e |-> TRUE],
                 [t |-> "schedule", c |-> TRUE, e |-> FALSE],
                 [t |-> "schedule", c |-> FALSE, e |-> TRUE],
                 [t |-> "manual", c |-> FALSE, e |-> TRUE] } }
EmptyDir == [f \in FileIds |-> NoFile]
Directories == [FileIds -> {NoFile, InvalidFile} \cup Definitions(StemSet)]
Exists(dir, f) == f \in DOMAIN dir /\ dir[f].kind # "none"

\* WorkflowLoader._get_yaml_files: *.yaml then *.yml, sorted by stem (stable)
RECURSIVE FilesFrom(_, _)
FilesFrom(dir, i) ==
    IF i > Len(Stems) THEN <<>>
    ELSE (IF Exists(dir, <<Stems[i], "yaml">>) THEN <<(<<Stems[i], "yaml">>)>> ELSE <<>>)
         \o (IF Exists(dir, <<Stems[i], "yml">>) THEN <<(<<Stems[i], "yml">>)>> ELSE <<>>)
         \o FilesFrom(dir, i + 1)
get_yaml_files(dir) == FilesFrom(dir, 1)

\* WorkflowLoader.load_workflow(name): <name>.yaml if it exists, else <name>.yml
load_by_name(dir, name) ==
    LET file == IF Exists(dir, <<name, "yaml">>) THEN dir[<<name, "yaml">>]
                ELSE IF Exists(dir, <<name, "yml">>) THEN dir[<<name, "yml">>]
                ELSE NoFile
    IN IF file.kind = "workflow" THEN [workflow |-> file, error |-> ""]
       ELSE [workflow |-> NoFile,
             error |-> IF file.kind = "none" THEN "not_found" ELSE "invalid"]

\* WorkflowLoader.list_workflows: one WorkflowInfo per file, loaded by its stem
WorkflowInfo(stem, loaded) ==
    IF loaded.error = ""
    THEN [name |-> loaded.workflow.name, is_valid |-> TRUE,
          trigger_type |-> loaded.workflow.trigger, enabled |-> loaded.workflow.enabled]
    ELSE [name |-> stem, is_valid |-> FALSE, trigger_type |-> "unknown",
          enabled |-> FALSE]
list_workflows(dir) ==
    LET files == get_yaml_files(dir)
    IN [i \in DOMAIN files |-> WorkflowInfo(files[i][1], load_by_name(dir, files[i][1]))]

JobId(name) == <<"workflow_", name>>
CleanupJob == <<"log_cleanup", "">>
NoJob == <<"", "">>

\* WorkflowScheduler after __init__: no job, nothing registered
NewScheduler ==
    [registered_jobs |-> [n \in StemSet |-> NoJob], jobs |-> {}, count |-> 0,
     op |-> "", before |-> {}, running |-> FALSE, last_call |-> "", raised |-> ""]

\* AsyncIOScheduler.start / shutdown: each raises when the scheduler is already in
\* the state asked for
scheduler_start(s) ==
    IF s.running THEN [s EXCEPT !.raised = "SchedulerAlreadyRunningError"]
    ELSE [s EXCEPT !.running = TRUE]
scheduler_shutdown(s) ==
    IF ~s.running THEN [s EXCEPT !.raised = "SchedulerNotRunningError"]
    ELSE [s EXCEPT !.running = FALSE]

\* (mutant) start without the `if not self.scheduler.running` guard
start_unguarded(s) == scheduler_start(s)

\* WorkflowScheduler.start
start(s) == IF ~s.running THEN scheduler_start(s) ELSE s

\* WorkflowScheduler.stop
stop(s) == IF s.running THEN scheduler_shutdown(s) ELSE s

\* WorkflowScheduler._register_job: [s: the scheduler afterwards, ok: the result]
register_job(s, workflow) ==
    IF workflow.trigger # "schedule" THEN [s |-> s, ok |-> FALSE]
    ELSE IF ~workflow.enabled THEN [s |-> s, ok |-> FALSE]
    ELSE IF ~workflow.cron_ok THEN [s |-> s, ok |-> FALSE]
    ELSE LET old == s.registered_jobs[workflow.name]
             removed == IF old # NoJob THEN s.jobs \ {old} ELSE s.jobs
         IN [s |-> [s EXCEPT !.jobs = removed \cup {JobId(workflow.name)},
                             !.registered_jobs[workflow.name] = JobId(workflow.name)],
             ok |-> TRUE]

\* WorkflowScheduler.register_workflows, lines 58-73: the loop over the infos
RECURSIVE RegisterFrom(_, _, _, _)
RegisterFrom(s, dir, infos, i) ==
    IF i > Len(infos) THEN s
    ELSE LET wf_info == infos[i]
             loaded == load_by_name(dir, wf_info.name)
         IN IF ~wf_info.is_valid \/ wf_info.trigger_type # "schedule" \/ loaded.error # ""
            THEN RegisterFrom(s, dir, infos, i + 1)
            ELSE LET done == register_job(s, loaded.workflow)
                 IN RegisterFrom([done.s EXCEPT !.count = @ + (IF done.ok THEN 1 ELSE 0)],
                                 dir, infos, i + 1)

register_workflows(s, dir) ==
    RegisterFrom([s EXCEPT !.count = 0], dir, list_workflows(dir), 1)

\* WorkflowScheduler.reload_workflows: every registered job is removed, then
\* register_workflows
reload_workflows(s, dir) ==
    register_workflows(
        [s EXCEPT !.jobs = @ \ {s.registered_jobs[n] : n \in StemSet},
                  !.registered_jobs = [n \in StemSet |-> NoJob]], dir)

\* WorkflowScheduler._execute_workflow: one job's callback.  trace lists what
\* the callback has done, escaped the error that left it
MaxFirings == 2
IdleFire ==
    [pc |-> "idle", name |-> "", loaded |-> NoFile, run_log |-> NoRunLog,
     trace |-> <<>>, escaped |-> "", cancelReq |-> FALSE, fired |-> 0]

\* (mutant) a callback whose except clause catches nothing
CaughtNever(exc) == FALSE

\* line 146, `except Exception`: CancelledError is a BaseException
Caught(exc) == exc # "CancelledError"

\* The callback ends: an error it does not catch leaves it
CallbackEnds(f, event, exc) ==
    [f EXCEPT !.pc = "done", !.trace = Append(@, event),
              !.escaped = IF exc # "" /\ ~Caught(exc) THEN exc ELSE ""]

\* lines 128-136: load by the job's argument; Executor.run is awaited
CallbackStarts(f, dir, workflow_name) ==
    LET loaded == load_by_name(dir, workflow_name)
        begun == [IdleFire EXCEPT !.name = workflow_name, !.fired = f.fired + 1]
    IN IF loaded.error # ""
       THEN CallbackEnds(begun, "load_failed", "")
       ELSE [begun EXCEPT !.pc = "running", !.loaded = loaded.workflow,
                          !.trace = <<"load", "run">>]

\* Executor.run, lines 87-166: the RunLog a run returns
ReturnedRunLog(f, status) ==
    [RunLog(f.fired, f.loaded.name) EXCEPT !.status = status, !.ended = TRUE]

----------------------------------------------------------------------------
(* core/run_logger.py: the daily files of runs/, cleanup and the queries *)

MaxDay == 3          \* the days are 0..MaxDay
MaxRetention == 2    \* largest retention_days given to cleanup
MaxLines == 2        \* longest daily file
\* The steps of a definition file, at most
MaxFileSteps == 2

\* A file <stem>.jsonl: the stem is the YYYYMMDD of a day, or some other text
DateStem(d) == [kind |-> "date", day |-> d]
TextStem == [kind |-> "text", day |-> 0]
LogStems == {DateStem(d) : d \in 0..MaxDay} \cup {TextStem}
NoLogFile == [exists |-> FALSE, lines |-> <<>>]
LogFile(lines) == [exists |-> TRUE, lines |-> lines]

\* An instant: a day and whether midnight of that day has passed
Instant(day, tod) == [day |-> day, tod |-> tod]
Before(a, b) == a.day < b.day \/ (a.day = b.day /\ a.tod < b.tod)

\* datetime.strptime(date_str, "%Y%m%d").replace(tzinfo=JST): midnight of the
\* day, ValueError for a stem that is not a date
strptime(stem) ==
    IF stem.kind = "date" THEN [ok |-> TRUE, value |-> Instant(stem.day, 0)]
    ELSE [ok |-> FALSE, value |-> Instant(0, 0)]

\* cleanup, line 150: datetime.now(JST) - timedelta(days=retention_days)
cutoff_date(now, retention_days) == Instant(now.day - retention_days, now.tod)

\* cleanup, lines 158-161: the file is deleted when file_date < cutoff_date
Expired(stem, cutoff) == strptime(stem).ok /\ Before(strptime(stem).value, cutoff)

\* RunLogger.cleanup: [files: the directory afterwards, out: the summary]
cleanup(files, now, retention_days) ==
    LET cutoff == cutoff_date(now, retention_days)
        present == {f \in LogStems : files[f].exists}
        deleted_files == {f \in present : Expired(f, cutoff)}
        kept_files == {f \in present : strptime(f).ok /\ ~Expired(f, cutoff)}
    IN [files |-> [f \in LogStems |-> IF f \in deleted_files THEN NoLogFile ELSE files[f]],
        out |-> [kind |-> "cleanup", retention_days |-> retention_days,
                 deleted_count |-> Cardinality(deleted_files),
                 deleted_files |-> deleted_files,
                 kept_count |-> Cardinality(kept_files)]]

\* The lines of a file: a RunLog, or a line that is no JSON of a RunLog
RunLine(workflow, started_at) ==
    [kind |-> "run", workflow |-> workflow, started_at |-> started_at]
GarbageLine == [kind |-> "garbage", workflow |-> "", started_at |-> 0]
LogWorkflows == {"A", "B"}
StartedAts == {1, 2}
LogLines == {RunLine(w, t) : w \in LogWorkflows, t \in StartedAts} \cup {GarbageLine}
NoFilter == "<None>"

\* sorted(self.runs_dir.glob("*.jsonl"), reverse=True): by name, descending (a
\* name of letters sorts after the names of digits)
LogFilesDescending ==
    [i \in 1..(MaxDay + 2) |-> IF i = 1 THEN TextStem ELSE DateStem(MaxDay + 2 - i)]

\* RunLogger._read_log_file: the RunLogs of the lines that parse and match the
\* filter, in the order of the file (run_id: the file and the line)
RECURSIVE ReadFrom(_, _, _, _)
ReadFrom(stem, lines, workflow_filter, i) ==
    IF i > Len(lines) THEN <<>>
    ELSE (IF lines[i].kind = "run"
             /\ (workflow_filter = NoFilter \/ lines[i].workflow = workflow_filter)
          THEN <<[run_id |-> <<stem, i>>, workflow |-> lines[i].workflow,
                  started_at |-> lines[i].started_at]>>
          ELSE <<>>)
         \o ReadFrom(stem, lines, workflow_filter, i + 1)
read_log_file(files, stem, workflow_filter) ==
    IF files[stem].exists THEN ReadFrom(stem, files[stem].lines, workflow_filter, 1)
    ELSE <<>>

\* lines 57-59 and 76-78: the files are read from the newest name to the oldest
RECURSIVE ScanFrom(_, _, _)
ScanFrom(files, workflow_filter, i) ==
    IF i > Len(LogFilesDescending) THEN <<>>
    ELSE read_log_file(files, LogFilesDescending[i], workflow_filter)
         \o ScanFrom(files, workflow_filter, i + 1)
Scan(files, workflow_filter) == ScanFrom(files, workflow_filter, 1)

\* sorted(runs, key=lambda x: x.started_at, reverse=True): stable
RECURSIVE InsertDesc(_, _)
InsertDesc(sorted, x) ==
    IF sorted = <<>> THEN <<x>>
    ELSE IF Head(sorted).started_at >= x.started_at
         THEN <<Head(sorted)>> \o InsertDesc(Tail(sorted), x)
         ELSE <<x>> \o sorted
RECURSIVE SortedDescFrom(_, _, _)
SortedDescFrom(done, q, i) ==
    IF i > Len(q) THEN done ELSE SortedDescFrom(InsertDesc(done, q[i]), q, i + 1)
SortedDesc(q) == SortedDescFrom(<<>>, q, 1)

Min(a, b) == IF a < b THEN a ELSE b

\* (mutant) the slice ignores the offset
SliceFromStart(q, offset, limit) == SubSeq(q, 1, Min(limit, Len(q)))

\* sorted_runs[offset:offset + limit], offset >= 0 and limit >= 0
Slice(q, offset, limit) == SubSeq(q, offset + 1, Min(offset + limit, Len(q)))

\* RunLogger.get_all_runs and get_runs_for_workflow
get_all_runs(files, limit, offset, workflow_filter) ==
    Slice(SortedDesc(Scan(files, workflow_filter)), offset, limit)
get_runs_for_workflow(files, workflow_name, limit, offset) ==
    Slice(SortedDesc(Scan(files, workflow_name)), offset, limit)

\* RunLogger.count_all_runs and count_runs_for_workflow: the lengths summed
\* file by file
RECURSIVE CountFrom(_, _, _)
CountFrom(files, workflow_filter, i) ==
    IF i > Len(LogFilesDescending) THEN 0
    ELSE Len(read_log_file(files, LogFilesDescending[i], workflow_filter))
         + CountFrom(files, workflow_filter, i + 1)
count_all_runs(files, workflow_filter) == CountFrom(files, workflow_filter, 1)
count_runs_for_workflow(files, workflow_name) == CountFrom(files, workflow_name, 1)

\* RunLogger.get_latest_run
NoRun == [run_id |-> <<>>, workflow |-> "", started_at |-> 0]
get_latest_run(files, workflow_name) ==
    LET found == get_runs_for_workflow(files, workflow_name, 1, 0)
    IN IF found # <<>> THEN found[1] ELSE NoRun

\* The methods class RunLogger defines; getting any other attribute of a
\* RunLogger raises AttributeError
RunLoggerMethods ==
    {"__init__", "_get_log_file", "save", "get_runs_for_workflow", "get_all_runs",
     "get_latest_run", "_read_log_file", "count_runs_for_workflow", "count_all_runs",
     "cleanup"}
NoLatestMap == [n \in {} |-> NoRun]

\* main.py dashboard, lines 268-269: run_logger.get_latest_runs_map(valid_names)
dashboard_latest_map(files, valid_names) ==
    [raised |-> IF "get_latest_runs_map" \in RunLoggerMethods THEN ""
                ELSE "AttributeError",
     latest_map |-> NoLatestMap]

NoOut == [kind |-> "none"]
IdleRuns ==
    [files |-> [f \in LogStems |-> NoLogFile], now |-> Instant(MaxDay, 0), out |-> NoOut]

----------------------------------------------------------------------------
(* actions/subworkflow.py: action_subworkflow *)

DEFAULT_MAX_DEPTH == 5
CALL_CHAIN_KEY == "_call_chain"

BoolV(b) == [t |-> "bool", s |-> <<IF b THEN "True" ELSE "False">>]
ListV(q) == [t |-> "list", s |-> q]

\* int(v) for the decimal numerals used here
Numerals == <<"0", "1", "2", "3", "4", "5", "6">>
ParseInt(v) == (CHOOSE n \in DOMAIN Numerals : Numerals[n] = v.s[1]) - 1

\* Python's truth value of a parameter
Truthy(v) ==
    CASE v.t = "bool" -> v.s = <<"True">>
      [] v.t = "str" -> v.s # <<>>
      [] v.t = "int" -> ParseInt(v) # 0
      [] v.t = "list" -> v.s # <<>>
      [] OTHER -> FALSE

\* `' -> '.join(call_chain)`
RECURSIVE Join(_)
Join(q) ==
    IF q = <<>> THEN <<>>
    ELSE IF Len(q) = 1 THEN <<q[1]>>
    ELSE <<q[1], " -> ">> \o Join(Tail(q))

\* The keys of a subworkflow step's params: the three control keys and the
\* keys forwarded to the nested run
ControlKeys == {"workflow_name", "max_depth", "continue_on_error"}
ForwardKeys == {"input_param", CALL_CHAIN_KEY}
ParamKeys == ControlKeys \cup ForwardKeys

IsTemplate(v) == "kind" \in DOMAIN v

\* render_value on a dict: strings are expanded, other values are kept
render_dict(value, context) ==
    [k \in DOMAIN value |->
        IF IsTemplate(value[k]) THEN render_string(value[k], context) ELSE value[k]]

\* Executor.run(self, workflow): the parameters a call may name
RunParameters == {"workflow"}
RunCallAccepted(kwargs) == kwargs \subseteq RunParameters
RunTypeError ==
    <<"Executor.run() got an unexpected keyword argument '", "context", "'">>

\* WorkflowLoader(workflows_dir).load_workflow(workflow_name)
load_named(files, name) ==
    IF name \in files THEN [workflow |-> name, error |-> <<>>]
    ELSE [workflow |-> "", error |-> <<"not found: ", name>>]

NoSubContext == [k \in {} |-> NoKey]

\* lines 112-118 (and 126-132, 147-153, 214-220): the result of a failed call
FailResult(error_msg) ==
    [success |-> FALSE, status |-> "failed", run_id |-> NoneV, results |-> <<>>,
     error |-> error_msg]
NoResult == [success |-> FALSE, status |-> "", run_id |-> NoneV, results |-> <<>>,
             error |-> <<>>]

\* What a call of the action did: it returned `result` or raised `exc(error)`;
\* loaded: load_workflow was called; sub_context: the context built for the
\* nested run (lines 161-180); ran: Executor.run started the nested workflow
SubOutcome(kind, exc, result, error, loaded, sub_context, ran) ==
    [kind |-> kind, exc |-> exc, result |-> result, error |-> error,
     loaded |-> loaded, sub_context |-> sub_context, ran |-> ran]

\* `if continue_on_error: return {...}` / `raise <exc>(error_msg)`
Reject(continue_on_error, exc, error_msg, loaded, sub_context) ==
    IF continue_on_error
    THEN SubOutcome("returned", "", FailResult(error_msg), <<>>, loaded, sub_context, FALSE)
    ELSE SubOutcome("raised", exc, NoResult, error_msg, loaded, sub_context, FALSE)

\* (mutant) the cycle check is missing
InCallChainNever(workflow_name, call_chain) == FALSE

\* line 108: `workflow_name in call_chain`
InCallChain(workflow_name, call_chain) ==
    \E i \in DOMAIN call_chain : call_chain[i] = workflow_name

\* line 122: `len(call_chain) >= max_depth`
DepthExhausted(call_chain, max_depth) == Len(call_chain) >= max_depth

CycleError(workflow_name, call_chain) ==
    <<"Circular dependency detected: ", workflow_name,
      " is already in call chain: ">> \o Join(call_chain)
DepthError(max_depth, call_chain) ==
    <<"Maximum subworkflow depth (", ToString(max_depth),
      ") exceeded. Call chain: ">> \o Join(call_chain)

\* lines 161-180: the context handed to the nested run
BuildSubContext(rendered_params, context, call_chain, workflow_name) ==
    LET base == [k \in BuiltinKeys \cup {CALL_CHAIN_KEY} |->
                    IF k = "workflow"
                    THEN [kind |-> "value", text |-> StrV(<<workflow_name>>)]
                    ELSE IF k = CALL_CHAIN_KEY
                    THEN [kind |-> "value",
                          text |-> ListV(Append(call_chain, workflow_name))]
                    ELSE ContextGet(context, k)]
        forwarded == {k \in DOMAIN rendered_params :
                        k \notin ControlKeys /\ rendered_params[k] # AbsentV}
    IN [k \in DOMAIN base \cup forwarded |->
            IF k \in forwarded THEN [kind |-> "value", text |-> rendered_params[k]]
            ELSE base[k]]

\* action_subworkflow(params, context): context is the run context without the
\* chain, chain is context.get("_call_chain") (AbsentV when the key is missing),
\* files are the names that have a valid definition on disk
action_subworkflow(params, context, chain, files) ==
    LET wn == params["workflow_name"]
        workflow_name == IF wn.t = "str" /\ wn.s # <<>> THEN wn.s[1] ELSE ""
        max_depth == IF params["max_depth"] = AbsentV THEN DEFAULT_MAX_DEPTH
                     ELSE ParseInt(params["max_depth"])
        continue_on_error == Truthy(params["continue_on_error"])
        call_chain == IF chain = AbsentV THEN <<>> ELSE chain.s
    IN
    IF ~Truthy(wn)
    THEN SubOutcome("raised", "ValueError", NoResult, <<"workflow_name is required">>,
                    FALSE, NoSubContext, FALSE)
    ELSE IF InCallChain(workflow_name, call_chain)
    THEN Reject(continue_on_error, "RecursionError",
                CycleError(workflow_name, call_chain), FALSE, NoSubContext)
    ELSE IF DepthExhausted(call_chain, max_depth)
    THEN Reject(continue_on_error, "RecursionError",
                DepthError(max_depth, call_chain), FALSE, NoSubContext)
    ELSE LET loaded == load_named(files, workflow_name) IN
         IF loaded.error # <<>>
         THEN Reject(continue_on_error, "FileNotFoundError",
                     <<"Failed to load workflow '", workflow_name, "': ">> \o loaded.error,
                     TRUE, NoSubContext)
         ELSE LET rendered_params == render_dict(params, context)
                  sub_context == BuildSubContext(rendered_params, context, call_chain,
                                                 workflow_name)
              IN \* line 184: executor.run(workflow, context=sub_context)
                 IF ~RunCallAccepted({"workflow", "context"})
                 THEN \* lines 209-222: the TypeError of the call is caught
                      IF continue_on_error
                      THEN SubOutcome("returned", "",
                                      FailResult(<<"Subworkflow execution error: ",
                                                   workflow_name, " - ">> \o RunTypeError),
                                      <<>>, TRUE, sub_context, FALSE)
                      ELSE SubOutcome("raised", "TypeError", NoResult, RunTypeError,
                                      TRUE, sub_context, FALSE)
                 ELSE SubOutcome("nested", "", NoResult, <<>>, TRUE, sub_context, TRUE)

----------------------------------------------------------------------------
(* core/loader.py and core/models.py: a definition file, its validation and *)
(* the file POST /api/workflows/save writes                                  *)

\* A mapping is a function from its keys to tagged values; a nested mapping is
\* MapV(m), a list ListV(q)
MapV(m) == [t |-> "map", m |-> m]
EmptyMap == [k \in {} |-> NoneV]
Field(m, key, default) == IF key \in DOMAIN m THEN m[key] ELSE default
IsStr(v) == v.t = "str"
IsMap(v) == v.t = "map"

\* What read_text and yaml.safe_load make of the file of a name: no file; a
\* file that cannot be read or decoded; a text that is not YAML; a text with
\* no document (safe_load gives None); a document, mapping or not
FileKinds == {"missing", "unreadable", "malformed", "empty", "document"}
Content(kind, data) == [kind |-> kind, data |-> data]
MissingFile == Content("missing", NoneV)
safe_load(content) == IF content.kind = "empty" THEN NoneV ELSE content.data
\* yaml.safe_dump writes each plain value in a form safe_load reads back
safe_dump(data) == Content("document", data)

\* StepCondition: step and equals are required (equals: Any takes None)
StepCondition_validate(v) ==
    IF /\ IsMap(v) /\ {"step", "equals"} \subseteq DOMAIN v.m /\ IsStr(v.m["step"])
       /\ Field(v.m, "match", StrV(<<"equals">>)) \in {StrV(<<"equals">>), StrV(<<"contains">>)}
    THEN [ok |-> TRUE,
          value |-> MapV([k \in {"step", "field", "equals", "match", "trim", "case_insensitive"} |->
                          CASE k = "field" -> Field(v.m, k, StrV(<<"text">>))
                            [] k = "match" -> Field(v.m, k, StrV(<<"equals">>))
                            [] k \in {"trim", "case_insensitive"} -> Field(v.m, k, BoolV(TRUE))
                            [] OTHER -> v.m[k]])]
    ELSE [ok |-> FALSE, value |-> NoneV]

\* Step: id and type are required strings; nothing compares the ids of the steps
Step_validate(v) ==
    IF /\ IsMap(v) /\ {"id", "type"} \subseteq DOMAIN v.m
       /\ IsStr(v.m["id"]) /\ IsStr(v.m["type"])
       /\ IsMap(Field(v.m, "params", MapV(EmptyMap)))
       /\ Field(v.m, "when", NoneV) # NoneV => StepCondition_validate(v.m["when"]).ok
       /\ Field(v.m, "meta", NoneV) # NoneV => IsMap(v.m["meta"])
    THEN [ok |-> TRUE,
          value |-> MapV([k \in {"id", "type", "params", "when", "meta"} |->
                          CASE k = "params" -> Field(v.m, k, MapV(EmptyMap))
                            [] k = "when" -> IF Field(v.m, k, NoneV) = NoneV THEN NoneV
                                             ELSE StepCondition_validate(v.m[k]).value
                            [] k = "meta" -> Field(v.m, k, NoneV)
                            [] OTHER -> v.m[k]])]
    ELSE [ok |-> FALSE, value |-> NoneV]

\* Trigger = TriggerSchedule | TriggerManual | TriggerWebhook, told apart by type
Trigger_validate(v) ==
    LET type == IF "type" \in DOMAIN v.m THEN v.m["type"]
                ELSE IF "cron" \in DOMAIN v.m THEN StrV(<<"schedule">>)
                ELSE StrV(<<"manual">>)
    IN  IF ~IsMap(v) THEN [ok |-> FALSE, value |-> NoneV]
        ELSE IF type = StrV(<<"schedule">>) /\ "cron" \in DOMAIN v.m /\ IsStr(v.m["cron"])
        THEN [ok |-> TRUE, value |-> MapV([k \in {"type", "cron"} |->
                                            IF k = "type" THEN type ELSE v.m[k]])]
        ELSE IF type = StrV(<<"manual">>)
        THEN [ok |-> TRUE, value |-> MapV([k \in {"type"} |-> type])]
        ELSE IF type = StrV(<<"webhook">>) /\ Field(v.m, "path", NoneV).t \in {"none", "str"}
        THEN [ok |-> TRUE, value |-> MapV([k \in {"type", "path"} |->
                                            IF k = "type" THEN type ELSE Field(v.m, k, NoneV)])]
        ELSE [ok |-> FALSE, value |-> NoneV]

\* Workflow.model_validate: the declared fields with their defaults, at least
\* one step; a key that is not a declared field (folder) is ignored
Workflow_validate(v) ==
    IF /\ IsMap(v) /\ {"name", "trigger", "steps"} \subseteq DOMAIN v.m
       /\ IsStr(v.m["name"])
       /\ Trigger_validate(v.m["trigger"]).ok
       /\ v.m["steps"].t = "list" /\ Len(v.m["steps"].s) >= 1
       /\ \A i \in 1..Len(v.m["steps"].s) : Step_validate(v.m["steps"].s[i]).ok
       /\ Field(v.m, "description", NoneV).t \in {"none", "str"}
       /\ Field(v.m, "enabled", BoolV(TRUE)).t = "bool"
    THEN [ok |-> TRUE,
          value |-> MapV([k \in {"name", "trigger", "steps", "description", "enabled"} |->
                          CASE k = "trigger" -> Trigger_validate(v.m[k]).value
                            [] k = "steps" ->
                                 ListV([i \in 1..Len(v.m[k].s) |-> Step_validate(v.m[k].s[i]).value])
                            [] k = "description" -> Field(v.m, k, NoneV)
                            [] k = "enabled" -> Field(v.m, k, BoolV(TRUE))
                            [] OTHER -> v.m[k]])]
    ELSE [ok |-> FALSE, value |-> NoneV]

\* model_dump(exclude_none=True): the fields of a model whose value is None are
\* left out, in the nested models too
exclude_none(m) == [k \in {key \in DOMAIN m : m[key] # NoneV} |-> m[k]]
Step_dump(v) ==
    MapV(exclude_none([v.m EXCEPT !["when"] = IF @ = NoneV THEN @ ELSE MapV(exclude_none(@.m))]))
Workflow_dump(v) ==
    MapV(exclude_none([v.m EXCEPT
        !["trigger"] = MapV(exclude_none(@.m)),
        !["steps"] = ListV([i \in 1..Len(@.s) |-> Step_dump(@.s[i])])]))

\* The except clauses of load_workflow: yaml.YAMLError, ValidationError, Exception
HandledNarrow(exc) == exc \in {"YAMLError", "ValidationError"}
Handled(exc) == exc \in {"YAMLError", "ValidationError", "OSError", "UnicodeDecodeError"}

NoMessage == "<None>"
Loaded(workflow, error, raised) == [workflow |-> workflow, error |-> error, raised |-> raised]
Failure(exc, message) ==
    IF Handled(exc) THEN Loaded(NoneV, message, "") ELSE Loaded(NoneV, NoMessage, exc)

\* WorkflowLoader.load_workflow, on the file found for the name: the messages
\* are the fixed prefixes of the source's messages
load_file(content) ==
    CASE content.kind = "missing" -> Loaded(NoneV, "workflow not found", "")
      [] content.kind = "unreadable" -> Failure(content.data.s[1], "unexpected error")
      [] content.kind = "malformed" -> Failure("YAMLError", "YAML syntax error")
      [] OTHER ->
           LET data == safe_load(content) IN
           IF data = NoneV THEN Loaded(NoneV, "YAML file is empty", "")
           ELSE LET checked == Workflow_validate(data) IN
                IF checked.ok THEN Loaded(checked.value, NoMessage, "")
                ELSE Failure("ValidationError", "validation error")

\* save_workflow, lines 1146-1173: the collected workflow_data is validated and
\* the dump of the validated model is written to <name>.yaml
save_workflow(workflow_data, file) ==
    LET checked == Workflow_validate(workflow_data) IN
    IF checked.ok THEN [status |-> 200, file |-> safe_dump(Workflow_dump(checked.value))]
    ELSE [status |-> 400, file |-> file]

\* The workflow_data of a workflow in memory, filed under a folder
WorkflowData(workflow, folder) ==
    MapV([k \in DOMAIN workflow.m \cup {"folder"} |->
            IF k = "folder" THEN folder ELSE workflow.m[k]])

IdleLoader ==
    [pc |-> "idle", file |-> MissingFile, result |-> Loaded(NoneV, NoMessage, ""),
     first |-> NoneV, folder |-> NoneV, status |-> 0]
----------------------------------------------------------------------------
(* core/retry.py: retry_async *)

\* The exception classes the wrapped function raises, and their base classes
ExcClasses == {"ValueError", "TypeError"}
\* (mutant) CancelledError derives from Exception
MroOfExceptions(cls) == {cls, "Exception", "BaseException"}

\* asyncio.CancelledError derives from BaseException only
Mro(cls) ==
    IF cls = "CancelledError" THEN {cls, "BaseException"}
    ELSE {cls, "Exception", "BaseException"}

NoError == [cls |-> "", id |-> 0]
NoValue == [id |-> 0]

\* retry_async(max_attempts=3, delay=1.0, backoff=2.0, exceptions=(Exception,))
DefaultRetry ==
    [max_attempts |-> 3, delay |-> 1, backoff |-> 2, exceptions |-> {"Exception"}]
RetryConfigs ==
    [max_attempts : 0..MaxAttempts, delay : {1, 2}, backoff : {1, 2},
     exceptions : {{"Exception"}, {"ValueError"}}]

\* wrapper before it is called; calls holds one entry per invocation of func:
\* "pending", "ok" or the class of the error it raised
IdleRetry(cfg) ==
    [pc |-> "idle", cfg |-> cfg, attempt |-> 0, last_error |-> NoError,
     calls |-> <<>>, waits |-> <<>>, result |-> NoValue, error |-> NoError]

\* (mutant) every error is caught by the except clause
RetriableAny(e, exceptions) == TRUE

\* line 48: `except exceptions as e`
Retriable(e, exceptions) == Mro(e.cls) \cap exceptions # {}

\* (mutant) the last attempt is taken to be the one before
IsLastAttemptEarly(attempt, max_attempts) == attempt = max_attempts - 2

\* line 52: `if attempt == max_attempts - 1`
IsLastAttempt(attempt, max_attempts) == attempt = max_attempts - 1

RECURSIVE Pow(_, _)
Pow(b, n) == IF n = 0 THEN 1 ELSE b * Pow(b, n - 1)

\* (mutant) the exponent is the number of the coming attempt
wait_time_next(delay, backoff, attempt) == delay * Pow(backoff, attempt + 1)

\* line 59: wait_time = delay * (backoff ** attempt)
wait_time(delay, backoff, attempt) == delay * Pow(backoff, attempt)

\* lines 45-47 and 66-69: the next iteration of `for attempt in range(max_attempts)`
\* awaits func; when the range is exhausted the code after the loop raises
LoopNext(r, attempt) ==
    IF attempt \in 0..(r.cfg.max_attempts - 1)
    THEN [r EXCEPT !.pc = "calling", !.attempt = attempt,
                   !.calls = Append(@, "pending")]
    ELSE [r EXCEPT !.pc = "raised",
                   !.error = IF r.last_error # NoError THEN r.last_error
                             ELSE [cls |-> "RuntimeError", id |-> 0]]

\* line 47: func returned, the wrapper returns its value
FuncReturned(r) ==
    [r EXCEPT !.pc = "returned", !.calls[Len(r.calls)] = "ok",
              !.result = [id |-> Len(r.calls)]]

\* lines 48-64: func raised e
FuncRaised(r, e) ==
    LET r1 == [r EXCEPT !.calls[Len(r.calls)] = e.cls] IN
    IF ~Retriable(e, r.cfg.exceptions)
    THEN [r1 EXCEPT !.pc = "raised", !.error = e]
    ELSE IF IsLastAttempt(r.attempt, r.cfg.max_attempts)
    THEN [r1 EXCEPT !.pc = "raised", !.last_error = e, !.error = e]
    ELSE [r1 EXCEPT !.pc = "sleeping", !.last_error = e,
                    !.waits = Append(@, wait_time(r.cfg.delay, r.cfg.backoff, r.attempt))]

----------------------------------------------------------------------------
(* core/loader.py, core/run_logger.py *)

\* WorkflowLoader.load_workflow: (workflow, None) or (None, error)
load_workflow(file) ==
    IF file = NoWorkflow THEN [workflow |-> NoWorkflow, error |-> "not_found"]
    ELSE [workflow |-> file, error |-> ""]

\* RunLogger.save: one line appended to the day's file
save(log, run_log) == Append(log, run_log)

----------------------------------------------------------------------------
(* State *)

Idle ==
    [pc |-> "idle", task |-> "none", cancelReq |-> FALSE, wf |-> NoWorkflow,
     idx |-> 0, context |-> <<>>, run_log |-> NoRunLog,
     inflight |-> FALSE, calls |-> <<>>, response |-> ""]

\* The step definitions the workflows are built from
Hi == <<"hi">>
StepPool ==
    { Step("a", "log", LitT(Hi), NoWhen),
      Step("b", "log", EmbedT(<<"v=">>, "a"), NoWhen),
      Step("b", "log", SingleT("a"),
           StepCondition("a", "text", StrV(Hi), "equals", TRUE, TRUE)),
      Step("b", "unknown_xyz", LitT(Hi), NoWhen),
      Step("a", "log", SingleT("b"),
           StepCondition("b", "text", StrV(Hi), "contains", FALSE, FALSE)),
      Step("b", "log", LitT(Hi),
           StepCondition("a", "other", StrV(Hi), "equals", TRUE, TRUE)) }

RECURSIVE SeqsUpTo(_, _)
SeqsUpTo(S, n) ==
    IF n = 0 THEN {<<>>}
    ELSE LET shorter == SeqsUpTo(S, n - 1)
         IN shorter \cup {Append(q, x) : q \in shorter, x \in S}

Workflows(n) == {Workflow(q) : q \in SeqsUpTo(StepPool, n) \ {<<>>}}

\* What a handler may return, and the message of the error it may raise
HandlerResults ==
    { DictRes(StrV(<<" ", "Hi", " ">>)), DictRes(StrV(<<"BYE">>)), NoneRes }
HandlerError == <<"boom">>

TypeOK ==
    /\ disk = NoWorkflow \/ (disk.name = WfName /\ Len(disk.steps) \in 1..MaxSteps)
    /\ registry = {"log"}
    /\ tasks \in [Names -> Starters \cup {NoTask}]
    /\ DOMAIN st = Starters
    /\ \A s \in Starters :
        /\ st[s].pc \in {"idle", "reading", "awaiting", "running", "done"}
        /\ st[s].task \in {"none", "pending", "running", "finished", "cancelled"}
        /\ st[s].idx \in 0..(MaxSteps + 1)
    /\ Len(journal) <= NumManual + NumSched

\* The params of a subworkflow step
SubParams(workflow_name, max_depth, continue_on_error, input_param, chain_param) ==
    [k \in ParamKeys |->
        CASE k = "workflow_name" -> workflow_name
          [] k = "max_depth" -> max_depth
          [] k = "continue_on_error" -> continue_on_error
          [] k = "input_param" -> input_param
          [] OTHER -> chain_param]

SubStep(params) == [id |-> "b", type |-> "subworkflow", params |-> params, when |-> NoWhen]

\* A run of workflow "wf" that has reached its subworkflow step: r is the run,
\* chain the _call_chain entry of its context, files the valid definitions
SubCase(params, context, chain, files) ==
    [pc |-> "idle",
     r |-> [Idle EXCEPT !.task = "running", !.idx = 1, !.context = context,
                        !.wf = Workflow(<<SubStep(params)>>),
                        !.run_log = RunLog(1, WfName)],
     chain |-> chain, files |-> files,
     outcome |-> SubOutcome("", "", NoResult, <<>>, FALSE, NoSubContext, FALSE)]

SubNames == {WfName, "sub"}
SubRegistry == {"log", "subworkflow"}

IdleSub ==
    SubCase(SubParams(AbsentV, AbsentV, AbsentV, AbsentV, AbsentV), InitialContext,
            AbsentV, {})

\* The subworkflow steps, run contexts, chains and directories considered
SubCases ==
    { SubCase(SubParams(wn, md, coe, ip, cp), ctx, ch, fs) :
        wn \in {AbsentV, LitT(<<>>)} \cup {LitT(<<n>>) : n \in SubNames},
        md \in {AbsentV, IntV(<<"0">>), IntV(<<"1">>), IntV(<<"2">>)},
        coe \in {AbsentV, BoolV(TRUE)},
        ip \in {AbsentV, LitT(Hi), SingleT("a")},
        cp \in {AbsentV, LitT(<<"x">>)},
        ctx \in {InitialContext, [InitialContext EXCEPT !["a"] = DictRes(StrV(Hi))]},
        ch \in {AbsentV} \cup {ListV(q) : q \in SeqsUpTo(SubNames, MaxChain)},
        fs \in {SubNames, {WfName}} }

\* A stop request that has not been received yet
IdleStop == [pc |-> "idle", tries |-> 0, signalled |-> <<>>, response |-> ""]

\* One call of render_params: the parameter text is pre + "{{ ref.text }}" + post
\* (form "expr") or another text (form "other")
DictV(items) == [t |-> "dict", s |-> items]
RenderCall(form, pre, ref, post, template_str, context) ==
    [pc |-> "idle", form |-> form, pre |-> pre, ref |-> ref, post |-> post,
     params |-> [message |-> LitT(template_str)], context |-> context,
     out |-> [message |-> NoneV]]
IdleRender == RenderCall("other", <<>>, "", <<>>, <<>>, InitialContext)

\* One call of Executor._evaluate_when
WhenCall(condition, context) ==
    [pc |-> "idle", condition |-> condition, context |-> context,
     out |-> [matched |-> FALSE, reason |-> <<>>]]
IdleWhen == WhenCall(NoWhen, InitialContext)

\* The other components at rest
ExtInit ==
    /\ stops = [k \in Stops |-> IdleStop]
    /\ retry = IdleRetry(DefaultRetry)
    /\ sub = IdleSub
    /\ wfdir = EmptyDir
    /\ sched = NewScheduler
    /\ fire = IdleFire
    /\ runs = IdleRuns
    /\ ldr = IdleLoader
    /\ rnd = IdleRender
    /\ wh = IdleWhen

InitWith(files) ==
    /\ disk \in files
    /\ registry = {"log"}
    /\ tasks = [n \in Names |-> NoTask]
    /\ st = [s \in Starters |-> Idle]
    /\ journal = <<>>
    /\ ExtInit

----------------------------------------------------------------------------
(* main.py: POST /api/workflows/{name}/run *)

\* run_workflow, lines 548-556: the first is_running check, then the request
\* body is awaited
RunRequest(s) ==
    /\ st[s].pc = "idle"
    /\ st' = [st EXCEPT ![s] =
                IF is_running(tasks, st, WfName)
                THEN [@ EXCEPT !.pc = "done", !.response = "busy"]
                ELSE [@ EXCEPT !.pc = "reading"]]
    /\ UNCHANGED <<disk, registry, tasks, journal>> /\ UNCHANGED extVars

\* run_workflow, lines 571-600: load, create the task, register it; a rejected
\* task is cancelled before it has run.  (The `prompt` override of lines 583-587
\* only applies to a first step of type ai_generate, which no workflow here has.)
RunRegister(s) ==
    /\ st[s].pc = "reading"
    /\ LET loaded == load_workflow(disk) IN
       IF loaded.error # ""
       THEN /\ st' = [st EXCEPT ![s] = [@ EXCEPT !.pc = "done", !.response = "load_error"]]
            /\ UNCHANGED tasks
       ELSE IF register_ok(tasks, st, WfName)
       THEN /\ tasks' = register(tasks, st, WfName, s)
            /\ st' = [st EXCEPT ![s] = [@ EXCEPT !.pc = "awaiting", !.task = "pending",
                                                 !.wf = loaded.workflow]]
       ELSE /\ tasks' = register(tasks, st, WfName, s)
            /\ st' = [st EXCEPT ![s] = [@ EXCEPT !.pc = "done", !.task = "pending",
                                                 !.cancelReq = TRUE,
                                                 !.wf = loaded.workflow,
                                                 !.response = "busy"]]
    /\ UNCHANGED <<disk, registry, journal>> /\ UNCHANGED extVars

\* The event loop starts the task: Executor.run up to its first suspension
TaskStart(s) ==
    /\ s \in Manual
    /\ st[s].task = "pending"
    /\ ~st[s].cancelReq
    /\ st' = [st EXCEPT ![s] = RunStart(@, s, registry)]
    /\ UNCHANGED <<disk, registry, tasks, journal>> /\ UNCHANGED extVars

\* run_workflow, lines 602-627: the handler resumes from `await task`; the
\* finally clause unregisters; a RunLog is saved and rendered, a CancelledError
\* leaves the handler (`except Exception` does not catch it)
RunResume(s) ==
    /\ st[s].pc = "awaiting"
    /\ Done(st[s].task)
    /\ tasks' = unregister(tasks, WfName)
    /\ IF st[s].task = "finished"
       THEN /\ journal' = save(journal, st[s].run_log)
            /\ st' = [st EXCEPT ![s] = [@ EXCEPT !.pc = "done",
                                                 !.response = st[s].run_log.status]]
       ELSE /\ journal' = journal
            /\ st' = [st EXCEPT ![s] = [@ EXCEPT !.pc = "done",
                                                 !.response = "CancelledError"]]
    /\ UNCHANGED <<disk, registry>> /\ UNCHANGED extVars

\* build_error_run(name, f"{type(e).__name__}: {e}"), main.py 194-205: a RunLog
\* made by the handler, status failed, no step records; named by its error class
build_error_run(cls) == cls

\* run_workflow, lines 602-627, when run_logger.save raises (run_logger.py 39:
\* the day's file cannot be opened for append): the call is inside the outer
\* try, so `except Exception` (line 617) renders build_error_run instead of
\* the RunLog the task returned
RunResumeSaveFails(s) ==
    /\ st[s].pc = "awaiting"
    /\ st[s].task = "finished"
    /\ tasks' = unregister(tasks, WfName)
    /\ st' = [st EXCEPT ![s] = [@ EXCEPT !.pc = "done",
                                         !.response = build_error_run("OSError")]]
    /\ UNCHANGED <<disk, registry, journal>> /\ UNCHANGED extVars

----------------------------------------------------------------------------
(* The handler awaited by a run returns, raises or exceeds the deadline *)

\* scheduler.py, lines 138-139: a scheduled run is saved as soon as it returns
AfterStep(s, r) ==
    IF s \in Sched /\ r.task = "finished"
    THEN /\ journal' = save(journal, r.run_log)
         /\ st' = [st EXCEPT ![s] = [r EXCEPT !.pc = "done"]]
    ELSE /\ journal' = journal
         /\ st' = [st EXCEPT ![s] = r]

StepReturns(s, results) ==
    /\ st[s].inflight /\ ~st[s].cancelReq
    /\ \E result \in results :
         AfterStep(s, HandlerReturns(st[s], result, registry))
    /\ UNCHANGED <<disk, registry, tasks>> /\ UNCHANGED extVars

StepRaises(s) ==
    /\ st[s].inflight /\ ~st[s].cancelReq
    /\ AfterStep(s, HandlerRaises(st[s], HandlerError))
    /\ UNCHANGED <<disk, registry, tasks>> /\ UNCHANGED extVars

StepTimesOut(s) ==
    /\ st[s].inflight /\ ~st[s].cancelReq
    /\ AfterStep(s, HandlerTimesOut(st[s], DEFAULT_STEP_TIMEOUT))
    /\ UNCHANGED <<disk, registry, tasks>> /\ UNCHANGED extVars

----------------------------------------------------------------------------
(* main.py: POST /api/workflows/{name}/stop, and RunManager.cancel *)

\* (mutant) cancel does not look at task.done()
cancel_ok_registered(table, s, workflow_name) == table[workflow_name] # NoTask

\* RunManager.cancel, lines 38-42: `if not task or task.done(): return False`
cancel_ok(table, s, workflow_name) ==
    ~(table[workflow_name] = NoTask \/ Done(s[table[workflow_name]].task))

\* RunManager.cancel, lines 36-42: task.cancel() on the live registered task
cancel(s, table, workflow_name) ==
    IF cancel_ok(table, s, workflow_name)
    THEN [s EXCEPT ![table[workflow_name]].cancelReq = TRUE]
    ELSE s

StopRequest ==
    /\ LiveTask(tasks, st, WfName)
    /\ st' = cancel(st, tasks, WfName)
    /\ UNCHANGED <<disk, registry, tasks, journal>> /\ UNCHANGED extVars

\* stop_workflow, lines 643-655: one call of cancel; the request is answered
\* `stopping` when it returns True, sleeps and calls again (at most STOP_RETRIES
\* times) when it returns False, and is answered 404 in the end
StopAttempt(k, again) ==
    LET ok == cancel_ok(tasks, st, WfName)
        tries == IF again THEN stops[k].tries + 1 ELSE 0
    IN /\ st' = cancel(st, tasks, WfName)
       /\ stops' = [stops EXCEPT ![k] =
            IF ok
            THEN [@ EXCEPT !.pc = "done", !.tries = tries, !.response = "stopping",
                           !.signalled = Append(@, tasks[WfName])]
            ELSE IF tries = STOP_RETRIES
            THEN [@ EXCEPT !.pc = "done", !.tries = tries, !.response = "not_running"]
            ELSE [@ EXCEPT !.pc = "sleeping", !.tries = tries]]
       /\ UNCHANGED <<disk, registry, tasks, journal, retry, sub, wfdir, sched, fire, runs, ldr, rnd, wh>>

StopCall(k) == stops[k].pc = "idle" /\ StopAttempt(k, FALSE)

StopRetry(k) == stops[k].pc = "sleeping" /\ StopAttempt(k, TRUE)

\* The event loop delivers the CancelledError to the cancelled task
CancelDelivered(s) ==
    /\ st[s].cancelReq
    /\ st[s].task \in {"pending", "running"}
    /\ st' = [st EXCEPT ![s] = RunCancelled(@)]
    /\ UNCHANGED <<disk, registry, tasks, journal>> /\ UNCHANGED extVars

----------------------------------------------------------------------------
(* core/scheduler.py: WorkflowScheduler._execute_workflow *)

\* lines 128-136: the definition is loaded and Executor.run is awaited in the
\* callback itself; the run manager is not consulted.  APScheduler starts at
\* most one instance of a job at a time (max_instances = 1).
Fire(s) ==
    /\ s \in Sched
    /\ st[s].pc = "idle"
    /\ \A o \in Sched : st[o].pc # "running"
    /\ LET loaded == load_workflow(disk) IN
       IF loaded.error # ""
       THEN /\ st' = [st EXCEPT ![s] = [@ EXCEPT !.pc = "done"]]
            /\ journal' = journal
       ELSE AfterStep(s, RunStart([st[s] EXCEPT !.pc = "running",
                                                !.wf = loaded.workflow], s, registry))
    /\ UNCHANGED <<disk, registry, tasks>> /\ UNCHANGED extVars

----------------------------------------------------------------------------------------------------------------------------------------
(* Specifications *)

\* Manual starts, stop requests and cron firings of one workflow, interleaved
ConcResults == {DictRes(StrV(Hi))}
Init == InitWith(Workflows(MaxConcSteps) \cup {NoWorkflow})
Next ==
    \/ \E s \in Manual : RunRequest(s)
    \/ \E s \in Manual : RunRegister(s)
    \/ \E s \in Manual : TaskStart(s)
    \/ \E s \in Manual : RunResume(s)
    \/ \E s \in Starters : StepReturns(s, ConcResults)
    \/ \E s \in Starters : StepRaises(s)
    \/ \E s \in Starters : StepTimesOut(s)
    \/ \E s \in Manual : CancelDelivered(s)
    \/ \E s \in Sched : Fire(s)
    \/ StopRequest
Spec == Init /\ [][Next]_vars

\* Two manual starts of one workflow (and stop requests), no scheduler
NextTwo ==
    \/ \E s \in TwoStarts : RunRequest(s)
    \/ \E s \in TwoStarts : RunRegister(s)
    \/ \E s \in TwoStarts : TaskStart(s)
    \/ \E s \in TwoStarts : RunResume(s)
    \/ \E s \in TwoStarts : StepReturns(s, ConcResults)
    \/ \E s \in TwoStarts : StepRaises(s)
    \/ \E s \in TwoStarts : StepTimesOut(s)
    \/ \E s \in TwoStarts : CancelDelivered(s)
    \/ StopRequest
SpecTwo == Init /\ [][NextTwo]_vars

\* Two manual starts of one workflow and a stop request with its retries
NextRM ==
    \/ \E s \in TwoStarts : RunRequest(s)
    \/ \E s \in TwoStarts : RunRegister(s)
    \/ \E s \in TwoStarts : TaskStart(s)
    \/ \E s \in TwoStarts : RunResume(s)
    \/ \E s \in TwoStarts : StepReturns(s, ConcResults)
    \/ \E s \in TwoStarts : StepRaises(s)
    \/ \E s \in TwoStarts : StepTimesOut(s)
    \/ \E s \in TwoStarts : CancelDelivered(s)
    \/ \E k \in Stops : StopCall(k)
    \/ \E k \in Stops : StopRetry(k)
SpecRM == Init /\ [][NextRM]_vars

\* Two manual starts of one workflow whose journal write may fail
NextSaveFail ==
    \/ \E s \in TwoStarts : RunRequest(s)
    \/ \E s \in TwoStarts : RunRegister(s)
    \/ \E s \in TwoStarts : TaskStart(s)
    \/ \E s \in TwoStarts : RunResume(s)
    \/ \E s \in TwoStarts : RunResumeSaveFails(s)
    \/ \E s \in TwoStarts : StepReturns(s, ConcResults)
    \/ \E s \in TwoStarts : StepRaises(s)
    \/ \E s \in TwoStarts : StepTimesOut(s)
SpecSaveFail == Init /\ [][NextSaveFail]_vars

----------------------------------------------------------------------------
(* A run executes a subworkflow step *)

\* Executor._execute_step, lines 198-220: the action is found in the registry,
\* the params are rendered and action_subworkflow is awaited
SubInvoke ==
    /\ sub.pc = "idle"
    /\ sub.r.wf.steps[sub.r.idx].type \in SubRegistry
    /\ sub' = [sub EXCEPT
                !.pc = "called",
                !.r.inflight = TRUE,
                !.r.calls = Append(@, [idx |-> sub.r.idx,
                                       params |-> render_dict(sub.r.wf.steps[sub.r.idx].params,
                                                              sub.r.context),
                                       context |-> sub.r.context,
                                       outcome |-> "inflight"])]
    /\ UNCHANGED <<coreVars, stops, retry, wfdir, sched, fire, runs, ldr, rnd, wh>>

\* action_subworkflow returns or raises, and Executor._execute_step and
\* Executor.run go on from there (lines 222-247 and 138-166)
SubCompletes ==
    /\ sub.pc = "called"
    /\ LET call == sub.r.calls[Len(sub.r.calls)]
           outcome == action_subworkflow(call.params, call.context, sub.chain, sub.files)
       IN sub' = [sub EXCEPT
                   !.outcome = outcome,
                   !.pc = IF outcome.kind = "nested" THEN "nested" ELSE "recorded",
                   !.r = CASE outcome.kind = "returned" ->
                                HandlerReturns(sub.r, DictRes(AbsentV), SubRegistry)
                           [] outcome.kind = "raised" ->
                                HandlerRaises(sub.r, outcome.error)
                           [] OTHER -> sub.r]
    /\ UNCHANGED <<coreVars, stops, retry, wfdir, sched, fire, runs, ldr, rnd, wh>>

InitSub ==
    /\ disk = NoWorkflow
    /\ registry = {"log"}
    /\ tasks = [n \in Names |-> NoTask]
    /\ st = [s \in Starters |-> Idle]
    /\ journal = <<>>
    /\ stops = [k \in Stops |-> IdleStop]
    /\ retry = IdleRetry(DefaultRetry)
    /\ sub \in SubCases
    /\ wfdir = EmptyDir
    /\ sched = NewScheduler
    /\ fire = IdleFire
    /\ runs = IdleRuns
    /\ ldr = IdleLoader
    /\ rnd = IdleRender
    /\ wh = IdleWhen
NextSub == SubInvoke \/ SubCompletes
SpecSub == InitSub /\ [][NextSub]_vars

----------------------------------------------------------------------------
(* One call of a function wrapped by retry_async *)

RetryCall ==
    /\ retry.pc = "idle"
    /\ retry' = LoopNext(retry, 0)
    /\ UNCHANGED <<coreVars, stops, sub, wfdir, sched, fire, runs, ldr, rnd, wh>>

FuncReturns ==
    /\ retry.pc = "calling"
    /\ retry' = FuncReturned(retry)
    /\ UNCHANGED <<coreVars, stops, sub, wfdir, sched, fire, runs, ldr, rnd, wh>>

FuncRaises ==
    /\ retry.pc = "calling"
    /\ \E cls \in ExcClasses :
         retry' = FuncRaised(retry, [cls |-> cls, id |-> Len(retry.calls)])
    /\ UNCHANGED <<coreVars, stops, sub, wfdir, sched, fire, runs, ldr, rnd, wh>>

\* line 64: asyncio.sleep returns and the loop goes on
SleepDone ==
    /\ retry.pc = "sleeping"
    /\ retry' = LoopNext(retry, retry.attempt + 1)
    /\ UNCHANGED <<coreVars, stops, sub, wfdir, sched, fire, runs, ldr, rnd, wh>>

\* The task that awaits the wrapper is cancelled: the CancelledError is raised
\* at the await of func (line 47, inside the try) or at the await of
\* asyncio.sleep (line 64, inside the except clause, outside the try)
TaskCancelled ==
    /\ retry.pc \in {"calling", "sleeping"}
    /\ LET e == [cls |-> "CancelledError", id |-> Len(retry.calls)] IN
       retry' = IF retry.pc = "calling" THEN FuncRaised(retry, e)
                ELSE [retry EXCEPT !.pc = "raised", !.error = e]
    /\ UNCHANGED <<coreVars, stops, sub, wfdir, sched, fire, runs, ldr, rnd, wh>>

InitRetry ==
    /\ disk = NoWorkflow
    /\ registry = {"log"}
    /\ tasks = [n \in Names |-> NoTask]
    /\ st = [s \in Starters |-> Idle]
    /\ journal = <<>>
    /\ stops = [k \in Stops |-> IdleStop]
    /\ retry \in {IdleRetry(cfg) : cfg \in RetryConfigs}
    /\ sub = IdleSub
    /\ wfdir = EmptyDir
    /\ sched = NewScheduler
    /\ fire = IdleFire
    /\ runs = IdleRuns
    /\ ldr = IdleLoader
    /\ rnd = IdleRender
    /\ wh = IdleWhen
NextRetry == RetryCall \/ FuncReturns \/ FuncRaises \/ SleepDone
SpecRetry == InitRetry /\ [][NextRetry]_vars

\* The same call, in a task that may be cancelled
NextRetryCancel == RetryCall \/ FuncReturns \/ FuncRaises \/ SleepDone \/ TaskCancelled
SpecRetryCancel == InitRetry /\ [][NextRetryCancel]_vars

\* main.py lifespan, lines 98-114: the workflows are registered, then the daily
\* retention job is added to the same scheduler
Lifespan ==
    /\ sched.op = ""
    /\ sched' = [register_workflows(start(sched), wfdir) EXCEPT
                    !.jobs = @ \cup {CleanupJob}, !.op = "startup", !.before = sched.jobs,
                    !.last_call = "start"]
    /\ UNCHANGED <<coreVars, stops, retry, sub, wfdir, fire, runs, ldr, rnd, wh>>

\* POST /api/scheduler/reload (main.py 1254-1257): reload_workflows
SchedulerReload ==
    /\ sched.op # ""
    /\ sched' = [reload_workflows(sched, wfdir) EXCEPT
                    !.op = "reload", !.before = sched.jobs]
    /\ UNCHANGED <<coreVars, stops, retry, sub, wfdir, fire, runs, ldr, rnd, wh>>

\* A file of workflows/ is written, replaced or deleted
EditFile(f, content) ==
    /\ wfdir[f] # content
    /\ wfdir' = [wfdir EXCEPT ![f] = content]
    /\ UNCHANGED <<coreVars, stops, retry, sub, sched, fire, runs, ldr, rnd, wh>>

InitSched ==
    /\ disk = NoWorkflow
    /\ registry = {"log"}
    /\ tasks = [n \in Names |-> NoTask]
    /\ st = [s \in Starters |-> Idle]
    /\ journal = <<>>
    /\ stops = [k \in Stops |-> IdleStop]
    /\ retry = IdleRetry(DefaultRetry)
    /\ sub = IdleSub
    /\ wfdir \in Directories
    /\ sched = NewScheduler
    /\ fire = IdleFire
    /\ runs = IdleRuns
    /\ ldr = IdleLoader
    /\ rnd = IdleRender
    /\ wh = IdleWhen
NextSched ==
    \/ Lifespan
    \/ SchedulerReload
    \/ \E f \in FileIds, content \in {NoFile, InvalidFile} \cup Definitions(StemSet) :
          EditFile(f, content)
SpecSched == InitSched /\ [][NextSched]_vars

----------------------------------------------------------------------------
(* core/run_logger.py: cleanup *)

\* POST /api/logs/cleanup (retention_days >= 1) and the daily job: RunLogger.cleanup
Cleanup(retention_days) ==
    /\ LET done == cleanup(runs.files, runs.now, retention_days)
       IN runs' = [runs EXCEPT !.files = done.files, !.out = done.out]
    /\ UNCHANGED <<coreVars, stops, retry, sub, wfdir, sched, fire, ldr, rnd, wh>>

\* The clock passes midnight, or reaches the next midnight
ClockAdvances ==
    /\ runs.now.day < MaxDay \/ runs.now.tod = 0
    /\ runs' = [runs EXCEPT !.now = IF runs.now.tod = 0 THEN Instant(runs.now.day, 1)
                                     ELSE Instant(runs.now.day + 1, 0),
                            !.out = NoOut]
    /\ UNCHANGED <<coreVars, stops, retry, sub, wfdir, sched, fire, ldr, rnd, wh>>

\* GET /workflows/{name}: get_runs_for_workflow, then count_runs_for_workflow
QueryWorkflow(workflow_name, limit, offset) ==
    /\ runs' = [runs EXCEPT !.out =
                  [kind |-> "runs", fn |-> "get_runs_for_workflow",
                   filter |-> workflow_name, limit |-> limit,
                   offset |-> offset,
                   page |-> get_runs_for_workflow(runs.files, workflow_name, limit, offset),
                   total |-> count_runs_for_workflow(runs.files, workflow_name)]]
    /\ UNCHANGED <<coreVars, stops, retry, sub, wfdir, sched, fire, ldr, rnd, wh>>

\* GET /runs: get_all_runs, then count_all_runs
QueryAll(workflow_filter, limit, offset) ==
    /\ runs' = [runs EXCEPT !.out =
                  [kind |-> "runs", fn |-> "get_all_runs",
                   filter |-> workflow_filter, limit |-> limit,
                   offset |-> offset,
                   page |-> get_all_runs(runs.files, limit, offset, workflow_filter),
                   total |-> count_all_runs(runs.files, workflow_filter)]]
    /\ UNCHANGED <<coreVars, stops, retry, sub, wfdir, sched, fire, ldr, rnd, wh>>

\* GET /: the dashboard asks for the latest run of every valid workflow
Dashboard(valid_names) ==
    /\ LET got == dashboard_latest_map(runs.files, valid_names)
       IN runs' = [runs EXCEPT !.out =
                     [kind |-> "dashboard", names |-> valid_names,
                      raised |-> got.raised, latest_map |-> got.latest_map]]
    /\ UNCHANGED <<coreVars, stops, retry, sub, wfdir, sched, fire, ldr, rnd, wh>>

InitCleanup ==
    /\ disk = NoWorkflow
    /\ registry = {"log"}
    /\ tasks = [n \in Names |-> NoTask]
    /\ st = [s \in Starters |-> Idle]
    /\ journal = <<>>
    /\ stops = [k \in Stops |-> IdleStop]
    /\ retry = IdleRetry(DefaultRetry)
    /\ sub = IdleSub
    /\ wfdir = EmptyDir
    /\ sched = NewScheduler
    /\ fire = IdleFire
    /\ runs \in [files : [LogStems -> {NoLogFile, LogFile(<<>>)}],
                  now : {Instant(MaxDay - 1, 1)}, out : {NoOut}]
    /\ ldr = IdleLoader
    /\ rnd = IdleRender
    /\ wh = IdleWhen
NextCleanup ==
    \/ \E retention_days \in 1..MaxRetention : Cleanup(retention_days)
    \/ ClockAdvances
SpecCleanup == InitCleanup /\ [][NextCleanup]_vars

----------------------------------------------------------------------------
(* core/run_logger.py: a cleanup running in the scheduler's worker thread while
   the event loop appends to the journal *)

\* The instant as a number, as a RunLog's started_at
Stamp(now) == 2 * now.day + now.tod

\* cleanup, lines 150-155: the cutoff is taken once, the lists are empty and
\* runs_dir.glob("*.jsonl") lists the directory
SweepStart(retention_days) ==
    /\ runs.out.kind # "sweep"
    /\ runs' = [runs EXCEPT !.out =
                  [kind |-> "sweep", retention_days |-> retention_days,
                   cutoff |-> cutoff_date(runs.now, retention_days),
                   listed |-> {f \in LogStems : runs.files[f].exists},
                   seen |-> {}, deleted_files |-> {}, kept_files |-> {}]]
    /\ UNCHANGED <<coreVars, stops, retry, sub, wfdir, sched, fire, ldr, rnd, wh>>

\* cleanup, lines 155-175: one file of the loop; a file created since the
\* directory was listed may be visited too
SweepVisit(log_file) ==
    /\ runs.out.kind = "sweep"
    /\ log_file \notin runs.out.seen
    /\ runs.files[log_file].exists
    /\ runs' = [runs EXCEPT
                  !.files = IF Expired(log_file, runs.out.cutoff)
                            THEN [@ EXCEPT ![log_file] = NoLogFile] ELSE @,
                  !.out.seen = @ \cup {log_file},
                  !.out.deleted_files =
                      IF Expired(log_file, runs.out.cutoff) THEN @ \cup {log_file} ELSE @,
                  !.out.kept_files =
                      IF strptime(log_file).ok /\ ~Expired(log_file, runs.out.cutoff)
                      THEN @ \cup {log_file} ELSE @]
    /\ UNCHANGED <<coreVars, stops, retry, sub, wfdir, sched, fire, ldr, rnd, wh>>

\* cleanup, lines 177-188: every listed file has been visited, the summary is
\* returned
SweepEnd ==
    /\ runs.out.kind = "sweep"
    /\ runs.out.listed \subseteq runs.out.seen
    /\ runs' = [runs EXCEPT !.out =
                  [kind |-> "cleanup", retention_days |-> runs.out.retention_days,
                   deleted_count |-> Cardinality(runs.out.deleted_files),
                   deleted_files |-> runs.out.deleted_files,
                   kept_count |-> Cardinality(runs.out.kept_files)]]
    /\ UNCHANGED <<coreVars, stops, retry, sub, wfdir, sched, fire, ldr, rnd, wh>>

\* RunLogger.save, lines 32-42: the file of the current day is opened for
\* append (created when absent) and one line is written
SaveRun(workflow) ==
    /\ Len(runs.files[DateStem(runs.now.day)].lines) < MaxLines
    /\ runs' = [runs EXCEPT !.files[DateStem(runs.now.day)] =
                  LogFile(Append(@.lines, RunLine(workflow, Stamp(runs.now))))]
    /\ UNCHANGED <<coreVars, stops, retry, sub, wfdir, sched, fire, ldr, rnd, wh>>

\* The clock passes midnight, or reaches the next midnight, whatever is running
ClockTicks ==
    /\ runs.now.day < MaxDay \/ runs.now.tod = 0
    /\ runs' = [runs EXCEPT !.now = IF runs.now.tod = 0 THEN Instant(runs.now.day, 1)
                                     ELSE Instant(runs.now.day + 1, 0)]
    /\ UNCHANGED <<coreVars, stops, retry, sub, wfdir, sched, fire, ldr, rnd, wh>>

InitSweep ==
    /\ disk = NoWorkflow
    /\ registry = {"log"}
    /\ tasks = [n \in Names |-> NoTask]
    /\ st = [s \in Starters |-> Idle]
    /\ journal = <<>>
    /\ stops = [k \in Stops |-> IdleStop]
    /\ retry = IdleRetry(DefaultRetry)
    /\ sub = IdleSub
    /\ wfdir = EmptyDir
    /\ sched = NewScheduler
    /\ fire = IdleFire
    /\ runs = [IdleRuns EXCEPT !.now = Instant(0, 0)]
    /\ ldr = IdleLoader
    /\ rnd = IdleRender
    /\ wh = IdleWhen
NextSweep ==
    \/ \E retention_days \in 1..MaxRetention : SweepStart(retention_days)
    \/ \E log_file \in LogStems : SweepVisit(log_file)
    \/ SweepEnd
    \/ SaveRun("A")
    \/ ClockTicks
SpecSweep == InitSweep /\ [][NextSweep]_vars

\* The two newest daily files hold any lines, the older one at most one
Limits == {1, 2}
Offsets == {0, 1, 2, 3}
QueryDirs ==
    { [f \in LogStems |->
         IF f = DateStem(MaxDay) THEN LogFile(newer)
         ELSE IF f = DateStem(MaxDay - 1) THEN LogFile(older)
         ELSE NoLogFile] :
      newer \in SeqsUpTo(LogLines, MaxLines), older \in SeqsUpTo(LogLines, 1) }
InitQuery ==
    /\ disk = NoWorkflow
    /\ registry = {"log"}
    /\ tasks = [n \in Names |-> NoTask]
    /\ st = [s \in Starters |-> Idle]
    /\ journal = <<>>
    /\ stops = [k \in Stops |-> IdleStop]
    /\ retry = IdleRetry(DefaultRetry)
    /\ sub = IdleSub
    /\ wfdir = EmptyDir
    /\ sched = NewScheduler
    /\ fire = IdleFire
    /\ runs \in [files : QueryDirs, now : {Instant(MaxDay, 1)}, out : {NoOut}]
    /\ ldr = IdleLoader
    /\ rnd = IdleRender
    /\ wh = IdleWhen
NextQuery ==
    \/ \E w \in LogWorkflows, limit \in Limits, offset \in Offsets :
          QueryWorkflow(w, limit, offset)
    \/ \E w \in LogWorkflows \cup {NoFilter}, limit \in Limits, offset \in Offsets :
          QueryAll(w, limit, offset)
    \/ \E valid_names \in SUBSET (LogWorkflows \cup {"C"}) : Dashboard(valid_names)
SpecQuery == InitQuery /\ [][NextQuery]_vars

----------------------------------------------------------------------------
(* core/scheduler.py: start, stop and the firings of one job *)

\* WorkflowScheduler.start()
SchedStart ==
    /\ sched' = [start(sched) EXCEPT !.last_call = "start"]
    /\ UNCHANGED <<coreVars, stops, retry, sub, wfdir, fire, runs, ldr, rnd, wh>>

\* WorkflowScheduler.stop(): shutdown(wait=False) returns at once; the executor
\* of the scheduler cancels the callbacks still in flight
SchedStop ==
    /\ sched' = [stop(sched) EXCEPT !.last_call = "stop"]
    /\ fire' = IF sched.running /\ fire.pc = "running"
               THEN [fire EXCEPT !.cancelReq = TRUE] ELSE fire
    /\ UNCHANGED <<coreVars, stops, retry, sub, wfdir, runs, ldr, rnd, wh>>

\* The cron trigger of a registered job fires (one instance at a time)
JobFires(workflow_name) ==
    /\ sched.running
    /\ JobId(workflow_name) \in sched.jobs
    /\ fire.pc # "running"
    /\ fire.fired < MaxFirings
    /\ fire' = CallbackStarts(fire, wfdir, workflow_name)
    /\ UNCHANGED <<coreVars, stops, retry, sub, wfdir, sched, runs, ldr, rnd, wh>>

\* lines 136-139: Executor.run returns its RunLog and RunLogger.save appends it,
\* or fails to (OSError)
RunReturns(status, saved) ==
    /\ fire.pc = "running" /\ ~fire.cancelReq
    /\ LET run_log == ReturnedRunLog(fire, status) IN
       IF saved
       THEN /\ journal' = save(journal, run_log)
            /\ fire' = CallbackEnds([fire EXCEPT !.run_log = run_log], "save", "")
       ELSE /\ journal' = journal
            /\ fire' = CallbackEnds([fire EXCEPT !.run_log = run_log], "save_failed", "OSError")
    /\ UNCHANGED <<disk, registry, tasks, st, stops, retry, sub, wfdir, sched, runs, ldr, rnd, wh>>

\* The CancelledError of a cancelled callback is raised at `await executor.run`
FireCancelled ==
    /\ fire.pc = "running" /\ fire.cancelReq
    /\ fire' = CallbackEnds(fire, "cancelled", "CancelledError")
    /\ UNCHANGED <<coreVars, stops, retry, sub, wfdir, sched, runs, ldr, rnd, wh>>

FireFile == <<"a", "yaml">>
FireDirs == { dir \in Directories : \A f \in FileIds \ {FireFile} : dir[f] = NoFile }
InitFire ==
    /\ disk = NoWorkflow
    /\ registry = {"log"}
    /\ tasks = [n \in Names |-> NoTask]
    /\ st = [s \in Starters |-> Idle]
    /\ journal = <<>>
    /\ stops = [k \in Stops |-> IdleStop]
    /\ retry = IdleRetry(DefaultRetry)
    /\ sub = IdleSub
    /\ wfdir \in FireDirs
    /\ sched = NewScheduler
    /\ fire = IdleFire
    /\ runs = IdleRuns
    /\ ldr = IdleLoader
    /\ rnd = IdleRender
    /\ wh = IdleWhen
NextFire ==
    \/ Lifespan
    \/ SchedStart
    \/ SchedStop
    \/ \E content \in {NoFile, InvalidFile} \cup Definitions(StemSet) :
          EditFile(FireFile, content)
    \/ \E n \in StemSet : JobFires(n)
    \/ \E status \in {"success", "failed"}, saved \in BOOLEAN : RunReturns(status, saved)
    \/ FireCancelled
SpecFire == InitFire /\ [][NextFire]_vars

\* One invocation at a time, manual or scheduled, over the longer workflows
Alone(s) == \A o \in Starters \ {s} : st[o].pc = "idle"
SoloRunRequest(s) == Alone(s) /\ RunRequest(s)
SoloRunRegister(s) == Alone(s) /\ RunRegister(s)
SoloTaskStart(s) == Alone(s) /\ TaskStart(s)
SoloRunResume(s) == Alone(s) /\ RunResume(s)
SoloStepReturns(s) == Alone(s) /\ StepReturns(s, HandlerResults)
SoloStepRaises(s) == Alone(s) /\ StepRaises(s)
SoloStepTimesOut(s) == Alone(s) /\ StepTimesOut(s)
SoloCancelDelivered(s) == Alone(s) /\ CancelDelivered(s)
SoloFire(s) == Alone(s) /\ Fire(s)

InitExec == InitWith(Workflows(MaxSteps) \cup {NoWorkflow})
NextExec ==
    \/ \E s \in Manual : SoloRunRequest(s)
    \/ \E s \in Manual : SoloRunRegister(s)
    \/ \E s \in Manual : SoloTaskStart(s)
    \/ \E s \in Manual : SoloRunResume(s)
    \/ \E s \in Starters : SoloStepReturns(s)
    \/ \E s \in Starters : SoloStepRaises(s)
    \/ \E s \in Starters : SoloStepTimesOut(s)
    \/ \E s \in Manual : SoloCancelDelivered(s)
    \/ \E s \in Sched : SoloFire(s)
    \/ StopRequest
SpecExec == InitExec /\ [][NextExec]_vars

\* Runs of definitions some of whose step ids are names of built-in context
\* keys (Step.id is any string, models.py 42-44)
KeyStepPool ==
    { Step("a", "log", LitT(Hi), NoWhen),
      Step("today", "log", LitT(Hi), NoWhen),
      Step("run_id", "log", LitT(Hi),
           StepCondition("today", "text", StrV(Hi), "equals", TRUE, TRUE)),
      Step("b", "unknown_xyz", LitT(Hi), NoWhen) }
InitKeys == InitWith({Workflow(q) : q \in SeqsUpTo(KeyStepPool, MaxSteps) \ {<<>>}})
SpecKeys == InitKeys /\ [][NextExec]_vars

----------------------------------------------------------------------------
(* core/loader.py: load_workflow, and main.py: POST /api/workflows/save *)

\* The mapping of the keys of r that are present
MappingOf(r) == [k \in {key \in DOMAIN r : r[key] # AbsentV} |-> r[k]]

\* The `when` and `meta` of a step of a file, and the steps
FileConditions ==
    { AbsentV,
      MapV(MappingOf([step |-> StrV(<<"a">>), equals |-> StrV(Hi)])),
      MapV(MappingOf([step |-> StrV(<<"a">>), equals |-> NoneV])),
      MapV(MappingOf([step |-> StrV(<<"a">>), equals |-> AbsentV])) }
FileMetas ==
    { AbsentV, MapV(MappingOf([x |-> IntV(<<"1">>), y |-> IntV(<<"2">>)])) }
StepData(id, when, meta) ==
    MapV(MappingOf([id |-> id, type |-> StrV(<<"log">>),
                    params |-> MapV(MappingOf([message |-> StrV(Hi)])),
                    when |-> when, meta |-> meta]))
FileSteps ==
    { StepData(StrV(<<id>>), when, meta) :
        id \in {"a", "b"}, when \in FileConditions, meta \in FileMetas }
    \cup { StepData(AbsentV, AbsentV, AbsentV) }

FileTriggers ==
    { MapV(MappingOf([type |-> StrV(<<"manual">>), cron |-> AbsentV])),
      MapV(MappingOf([type |-> StrV(<<"schedule">>), cron |-> StrV(<<"0 9 * * *">>)])),
      MapV(MappingOf([type |-> StrV(<<"schedule">>), cron |-> AbsentV])),
      MapV(MappingOf([type |-> StrV(<<"webhook">>), cron |-> AbsentV])) }

\* The documents: mappings with or without the optional keys, and a scalar
Documents ==
    { MapV(MappingOf([name |-> StrV(<<WfName>>), trigger |-> trigger, steps |-> ListV(steps),
                      description |-> description, enabled |-> enabled, folder |-> folder])) :
        trigger \in FileTriggers, steps \in SeqsUpTo(FileSteps, MaxFileSteps),
        description \in {AbsentV, StrV(<<"text">>)}, enabled \in {AbsentV, BoolV(FALSE)},
        folder \in {AbsentV, StrV(<<"ops">>)} }
    \cup { MapV(MappingOf([name |-> AbsentV, trigger |-> AbsentV, steps |-> AbsentV])),
           StrV(Hi) }

Files ==
    { MissingFile, Content("empty", NoneV), Content("malformed", NoneV),
      Content("unreadable", StrV(<<"OSError">>)),
      Content("unreadable", StrV(<<"UnicodeDecodeError">>)) }
    \cup { Content("document", data) : data \in Documents }

\* loader.load_workflow(name)
LoadWorkflow ==
    /\ ldr.pc \in {"idle", "saved"}
    /\ ldr' = [ldr EXCEPT !.result = load_file(ldr.file),
                          !.pc = IF ldr.pc = "idle" THEN "loaded" ELSE "reloaded"]
    /\ UNCHANGED <<coreVars, stops, retry, sub, wfdir, sched, fire, runs, rnd, wh>>

\* The loaded workflow is saved as it is in memory, under the folder of its file
SaveWorkflow ==
    /\ ldr.pc = "loaded" /\ ldr.result.workflow # NoneV
    /\ LET folder == Field(ldr.file.data.m, "folder", NoneV)
           saved == save_workflow(WorkflowData(ldr.result.workflow, folder), ldr.file)
       IN ldr' = [ldr EXCEPT !.pc = "saved", !.first = ldr.result.workflow,
                             !.folder = folder, !.file = saved.file,
                             !.status = saved.status]
    /\ UNCHANGED <<coreVars, stops, retry, sub, wfdir, sched, fire, runs, rnd, wh>>

InitLoad ==
    /\ disk = NoWorkflow
    /\ registry = {"log"}
    /\ tasks = [n \in Names |-> NoTask]
    /\ st = [s \in Starters |-> Idle]
    /\ journal = <<>>
    /\ stops = [k \in Stops |-> IdleStop]
    /\ retry = IdleRetry(DefaultRetry)
    /\ sub = IdleSub
    /\ wfdir = EmptyDir
    /\ sched = NewScheduler
    /\ fire = IdleFire
    /\ runs = IdleRuns
    /\ ldr \in { [IdleLoader EXCEPT !.file = content] : content \in Files }
    /\ rnd = IdleRender
    /\ wh = IdleWhen
NextLoad ==
    \/ LoadWorkflow
    \/ SaveWorkflow
SpecLoad == InitLoad /\ [][NextLoad]_vars

----------------------------------------------------------------------------
(* core/templating.py: render_params on one parameter *)

\* What the context holds for step a: nothing, None, {}, {"text": value}
RenderEntries ==
    << NoKey, NoneRes, DictRes(AbsentV), DictRes(StrV(Hi)), DictRes(NoneV),
       DictRes(IntV(<<"1">>)), DictRes(BoolV(TRUE)),
       DictRes(ListV(<<IntV(<<"1">>), IntV(<<"2">>)>>)),
       DictRes(ListV(<<StrV(Hi), NoneV>>)),
       DictRes(DictV(<< <<"k", IntV(<<"1">>)>> >>)) >>
RenderContext(i, b) == [InitialContext EXCEPT !["a"] = RenderEntries[i], !["b"] = b]

\* The text around the expression, and the blanks inside the braces
Pres == {<<>>, <<" ">>, <<"v=">>, <<"v=", " ">>}
Posts == {<<>>, <<" ">>, <<"!">>}
Blanks == {<<>>, <<" ">>}
ExprText(pre, blank, ref, post) ==
    pre \o <<"{{">> \o blank \o <<ref, ".text">> \o blank \o <<"}}">> \o post

\* Texts of another form: no expression, two expressions, an unclosed or
\* malformed expression, an unknown directive, a stray "}}"
OtherTexts ==
    { Hi,
      <<"{{", "a", ".text", "}}", "{{", "b", ".text", "}}">>,
      <<"{{", "a", ".text", "}}", "-", "{{", "b", ".text", "}}">>,
      <<"{{", "a", ".text">>,
      <<"{{", "v=", "}}">>,
      <<"{%", "x", "%}", "{{", "a", ".text", "}}">>,
      <<"{{", "a", ".text", "}}", "{%", "x", "%}", "{{", "b", ".text", "}}">>,
      <<"}}", "hi">> }

\* executor.py, line 224: render_params(step.params, context)
RenderParams ==
    /\ rnd.pc = "idle"
    /\ rnd' = [rnd EXCEPT !.pc = "done", !.out = render_params(rnd.params, rnd.context)]
    /\ UNCHANGED <<coreVars, stops, retry, sub, wfdir, sched, fire, runs, ldr, wh>>

InitRender ==
    /\ disk = NoWorkflow
    /\ registry = {"log"}
    /\ tasks = [n \in Names |-> NoTask]
    /\ st = [s \in Starters |-> Idle]
    /\ journal = <<>>
    /\ stops = [k \in Stops |-> IdleStop]
    /\ retry = IdleRetry(DefaultRetry)
    /\ sub = IdleSub
    /\ wfdir = EmptyDir
    /\ sched = NewScheduler
    /\ fire = IdleFire
    /\ runs = IdleRuns
    /\ ldr = IdleLoader
    /\ \E i \in DOMAIN RenderEntries, b \in {NoKey, DictRes(StrV(<<"x">>))} :
        \/ \E pre \in Pres, blank \in Blanks, post \in Posts :
              rnd = RenderCall("expr", pre, "a", post, ExprText(pre, blank, "a", post),
                               RenderContext(i, b))
        \/ \E text \in OtherTexts :
              rnd = RenderCall("other", <<>>, "", <<>>, text, RenderContext(i, b))
    /\ wh = IdleWhen
NextRender == RenderParams
SpecRender == InitRender /\ [][NextRender]_vars

----------------------------------------------------------------------------
(* core/executor.py: _evaluate_when on one condition *)

\* What the context holds for step a: no entry, None (the handler's result was
\* None), {} and {"text": value}
WhenEntries ==
    << NoKey, NoneRes, DictRes(AbsentV), DictRes(NoneV), DictRes(StrV(<<>>)),
       DictRes(StrV(<<" ", "Hi", " ">>)), DictRes(StrV(Hi)), DictRes(IntV(<<"1">>)) >>
WhenContext(i) == [InitialContext EXCEPT !["a"] = WhenEntries[i]]

WhenConditions ==
    { StepCondition(step, field, equals, match, trim, ci) :
        step \in {"a", "run_id"}, field \in {"text", "other"},
        equals \in {StrV(Hi), StrV(<<>>), NoneV, IntV(<<"1">>)},
        match \in {"equals", "contains"}, trim \in BOOLEAN, ci \in BOOLEAN }

\* executor.py, line 119: self._evaluate_when(step.when, context)
EvaluateWhen ==
    /\ wh.pc = "idle"
    /\ wh' = [wh EXCEPT !.pc = "done", !.out = evaluate_when(wh.condition, wh.context)]
    /\ UNCHANGED <<coreVars, stops, retry, sub, wfdir, sched, fire, runs, ldr, rnd>>

InitWhen ==
    /\ disk = NoWorkflow
    /\ registry = {"log"}
    /\ tasks = [n \in Names |-> NoTask]
    /\ st = [s \in Starters |-> Idle]
    /\ journal = <<>>
    /\ stops = [k \in Stops |-> IdleStop]
    /\ retry = IdleRetry(DefaultRetry)
    /\ sub = IdleSub
    /\ wfdir = EmptyDir
    /\ sched = NewScheduler
    /\ fire = IdleFire
    /\ runs = IdleRuns
    /\ ldr = IdleLoader
    /\ rnd = IdleRender
    /\ \E i \in DOMAIN WhenEntries, condition \in WhenConditions :
          wh = WhenCall(condition, WhenContext(i))
NextWhen == EvaluateWhen
SpecWhen == InitWhen /\ [][NextWhen]_vars

----------------
(* Properties *)

\* The run of invocation s is executing (Executor.run has started and has
\* neither returned nor been cancelled)
Live(s) == st[s].task = "running"
\* Executor.run has started for invocation s
Ran(s) == st[s].run_log.status # "none"
\* The journal lines of the run of invocation s
LinesOf(s) == {i \in DOMAIN journal : journal[i].run_id = s}
\* The handler invocations of the run of s that ended with `outcome`
CallsWith(s, outcome) == {k \in DOMAIN st[s].calls : st[s].calls[k].outcome = outcome}

\* C1 (as stated): of two concurrent manual starts of one workflow, exactly one
\* registers its task and runs and the other receives the busy result, and the
\* two runs never overlap.
C1_ExactlyOneRuns ==
    /\ \A a \in TwoStarts, b \in TwoStarts : a # b => ~(Live(a) /\ Live(b))
    /\ (\A s \in TwoStarts : st[s].pc = "done" /\ st[s].response # "load_error")
         => \E a \in TwoStarts, b \in TwoStarts :
                a # b /\ st[a].response # "busy" /\ st[b].response = "busy"

\* C1 (amended): two manual starts of one workflow never run at the same time;
\* a start answered busy has executed nothing of its run and is answered busy
\* only when the other start has registered its task; a start that is running
\* has not been answered.
C1_NoOverlap ==
    /\ \A a \in TwoStarts, b \in TwoStarts : a # b => ~(Live(a) /\ Live(b))
    /\ \A s \in TwoStarts :
        st[s].response = "busy" =>
            /\ ~Ran(s) /\ st[s].calls = <<>>
            /\ \E o \in TwoStarts \ {s} :
                /\ st[o].pc \in {"awaiting", "done"}
                /\ st[o].response \notin {"busy", "load_error"}
    /\ \A s \in TwoStarts : Live(s) => st[s].response = ""

\* C1 witness: one start is running a step while the other, which had passed
\* the first is_running check, was refused by register
C1_Witness ==
    \E a \in TwoStarts, b \in TwoStarts :
        /\ a # b /\ Live(a) /\ st[a].inflight
        /\ st[b].response = "busy" /\ st[b].task # "none"

\* C2: a cron firing never runs while another run of the same workflow is in
\* flight, and no run starts while a scheduled run is in flight.
C2_SchedulerSerialized ==
    \A s \in Sched, o \in Starters : o # s => ~(Live(s) /\ Live(o))

\* C3: every run that has terminated and whose invocation is over has exactly
\* one line in the journal, with status success, failed or stopped.
C3_OneRunLogPerRun ==
    \A s \in Starters :
        (st[s].pc = "done" /\ Ran(s)) =>
            /\ Cardinality(LinesOf(s)) = 1
            /\ \A i \in LinesOf(s) : journal[i].status \in {"success", "failed", "stopped"}

\* C4: a run cancelled while a step is in flight ends stopped, with the step
\* recorded as failed and nothing after it, and its RunLog is in the journal.
C4_CancelledRunIsStopped ==
    \A s \in Manual :
        (st[s].pc = "done" /\ CallsWith(s, "cancelled") # {}) =>
            \E i \in LinesOf(s) :
                /\ journal[i].status = "stopped"
                /\ \A k \in CallsWith(s, "cancelled") :
                    /\ Len(journal[i].steps) = st[s].calls[k].idx
                    /\ journal[i].steps[st[s].calls[k].idx].status = "failed"

\* The context a run holds once the first n step records are written: the
\* built-in keys, then each successful record published under its id, in order
RECURSIVE ContextAfter(_, _)
ContextAfter(steps, n) ==
    IF n = 0 THEN InitialContext
    ELSE LET c == ContextAfter(steps, n - 1)
         IN IF steps[n].status = "success"
            THEN [c EXCEPT ![steps[n].id] = steps[n].result] ELSE c

\* C5: a step whose handler raised is recorded failed with the error's message,
\* the run is failed with that error, and no later step is invoked or recorded.
C5_StepErrorFailsRun ==
    \A s \in Starters : \A k \in CallsWith(s, "raised") :
        LET i == st[s].calls[k].idx
            log == st[s].run_log
        IN /\ Len(log.steps) = i
           /\ log.steps[i].id = st[s].wf.steps[i].id
           /\ log.steps[i].status = "failed"
           /\ log.steps[i].error = StrV(HandlerError)
           /\ log.status = "failed"
           /\ log.error = log.steps[i].error
           /\ log.ended /\ ~Live(s)
           /\ k = Len(st[s].calls)

\* C5 witness: the handler of a step raised while a later step is declared
C5_Witness ==
    \E s \in Starters : \E k \in CallsWith(s, "raised") :
        st[s].calls[k].idx < Len(st[s].wf.steps)

\* C6: the params a handler receives are the expansion of the step's params
\* against a context that holds prev.id -> prev.result for every earlier step
\* that succeeded.
C6_ParamsSeeEarlierResults ==
    \A s \in Starters : \A k \in DOMAIN st[s].calls :
        LET c == st[s].calls[k]
            log == st[s].run_log
        IN /\ c.params = render_params(st[s].wf.steps[c.idx].params, c.context)
           /\ \A j \in 1..(c.idx - 1) :
                log.steps[j].status = "success" =>
                    c.context[log.steps[j].id] = log.steps[j].result

\* C7: the context holds a published entry under a step's id only if that step
\* has completed with success, and a `when` that refers to a skipped or failed
\* step is skipped as condition_step_missing.
C7_OnlySuccessPublishes ==
    \A s \in Starters :
        LET log == st[s].run_log
            steps == st[s].wf.steps
        IN /\ \A i \in DOMAIN steps :
                (Ran(s) /\ st[s].context[steps[i].id].kind \in {"dict", "none"}) =>
                    (i <= Len(log.steps) /\ log.steps[i].status = "success")
           /\ \A i \in DOMAIN log.steps : \A j \in 1..(i - 1) :
                (/\ steps[i].when # NoWhen
                 /\ steps[i].when.step = steps[j].id
                 /\ log.steps[j].status # "success") =>
                    /\ log.steps[i].status = "skipped"
                    /\ log.steps[i].reason = <<"condition_step_missing:", steps[j].id>>

\* C8: a step whose condition is false or missing is recorded skipped with
\* {reason, when}, its handler is not invoked and the run goes on; a false
\* comparison gives condition_not_met; a run without a failed step ends success.
C8_SkippedSteps ==
    \A s \in Starters :
        LET log == st[s].run_log
            steps == st[s].wf.steps
        IN /\ \A i \in DOMAIN log.steps :
                LET ev == evaluate_when(steps[i].when, ContextAfter(log.steps, i - 1))
                IN IF steps[i].when # NoWhen /\ ~ev.matched
                   THEN /\ log.steps[i].status = "skipped"
                        /\ log.steps[i].id = steps[i].id
                        /\ log.steps[i].when = steps[i].when
                        /\ ev.reason = <<>> => log.steps[i].reason = <<"condition_not_met">>
                        /\ ev.reason # <<>> =>
                             /\ log.steps[i].reason = ev.reason
                             /\ ev.reason[1] \in {"condition_step_missing:",
                                                  "condition_field_missing:"}
                        /\ \A k \in DOMAIN st[s].calls : st[s].calls[k].idx # i
                        /\ st[s].idx > i
                   ELSE log.steps[i].status # "skipped"
           /\ (log.ended /\ \A i \in DOMAIN log.steps : log.steps[i].status # "failed")
                => log.status = "success" /\ Len(log.steps) = Len(steps)

\* C8 witness: a finished run with a step skipped because the comparison was
\* false, after a step that succeeded
C8_Witness ==
    \E s \in Starters :
        /\ st[s].run_log.ended /\ st[s].run_log.status = "success"
        /\ \E i \in DOMAIN st[s].run_log.steps :
            /\ st[s].run_log.steps[i].status = "skipped"
            /\ st[s].run_log.steps[i].reason = <<"condition_not_met">>
            /\ i > 1 /\ st[s].run_log.steps[i - 1].status = "success"

\* C9: a step that exceeds the deadline is recorded failed with a 'timed out'
\* error naming the 300 s default, its handler is cancelled, no later step runs,
\* the run ends failed, and the workflow's slot is free afterwards.
C9_TimeoutFailsRun ==
    \A s \in Starters : \A k \in CallsWith(s, "cancelled_by_timeout") :
        LET i == st[s].calls[k].idx
            log == st[s].run_log
        IN /\ Len(log.steps) = i
           /\ log.steps[i].status = "failed"
           /\ log.steps[i].error =
                StrV(<<"Step execution timed out after ", "300", " seconds">>)
           /\ log.status = "failed" /\ log.error = log.steps[i].error
           /\ log.ended /\ ~Live(s)
           /\ k = Len(st[s].calls)
           /\ ~is_running(tasks, st, WfName)
           /\ st[s].pc = "done" => tasks[WfName] = NoTask
           /\ (s \in Manual /\ st[s].pc = "done") => st[s].response = "failed"

\* C9 witness: a manual run whose first step timed out, a later step declared,
\* the request answered
C9_Witness ==
    \E s \in Manual : \E k \in CallsWith(s, "cancelled_by_timeout") :
        /\ st[s].calls[k].idx < Len(st[s].wf.steps)
        /\ st[s].pc = "done"

\* C10: a step whose type is not registered when it is reached is recorded
\* failed with 'Unknown action type: <type>', no handler is invoked for it,
\* nothing is published, and the run ends failed with no later record.
C10_UnknownAction ==
    \A s \in Starters :
        LET log == st[s].run_log
            steps == st[s].wf.steps
        IN \A i \in DOMAIN log.steps :
            (steps[i].type \notin registry /\ log.steps[i].status # "skipped") =>
                /\ log.steps[i].status = "failed"
                /\ log.steps[i].error = StrV(<<"Unknown action type: ", steps[i].type>>)
                /\ \A k \in DOMAIN st[s].calls : st[s].calls[k].idx # i
                /\ st[s].context = ContextAfter(log.steps, i - 1)
                /\ Len(log.steps) = i
                /\ log.status = "failed" /\ log.error = log.steps[i].error
                /\ log.ended /\ ~Live(s)

\* C10 witness: a successful step, then a step of unknown type, then a declared
\* third step
C10_Witness ==
    \E s \in Starters :
        /\ Len(st[s].wf.steps) = 3
        /\ Len(st[s].run_log.steps) = 2
        /\ st[s].run_log.steps[1].status = "success"
        /\ st[s].run_log.steps[2].status = "failed"
        /\ st[s].wf.steps[2].type \notin registry

\* A task is registered for the workflow and has neither returned nor been
\* cancelled
LiveRegistered ==
    tasks[WfName] # NoTask /\ st[tasks[WfName]].task \in {"pending", "running"}

\* C11: register returns ok and stores the task if and only if no task
\* registered under the name is still live; otherwise it returns busy and the
\* table is unchanged; a finished task still in the table does not block.
C11_RegisterContract ==
    [][\A s \in TwoStarts :
        (st[s].pc = "reading" /\ st'[s].pc # "reading" /\ st'[s].response # "load_error") =>
            IF LiveRegistered
            THEN st'[s].response = "busy" /\ tasks' = tasks
            ELSE /\ st'[s].response = "" /\ st'[s].pc = "awaiting"
                 /\ tasks' = [tasks EXCEPT ![WfName] = s]]_vars

\* C11 witness: a start registered its task while the finished task of the
\* other start, whose handler has not resumed yet, was still in the table
C11_Witness ==
    \E a \in TwoStarts, b \in TwoStarts :
        /\ a # b /\ tasks[WfName] = b /\ st[b].pc = "awaiting"
        /\ st[a].pc = "awaiting" /\ st[a].task = "finished"

\* C12: cancel returns ok exactly when a live task is registered, and then that
\* task (and no other) receives the cancellation; otherwise it returns absent
\* and signals nothing; is_running is true exactly where cancel returns ok.
C12_CancelContract ==
    [][/\ is_running(tasks, st, WfName) <=> LiveRegistered
       /\ cancel_ok(tasks, st, WfName) <=> is_running(tasks, st, WfName)
       /\ \A k \in Stops :
            stops'[k] # stops[k] =>
                /\ tasks' = tasks
                /\ IF LiveRegistered
                   THEN /\ stops'[k].response = "stopping"
                        /\ stops'[k].signalled = <<tasks[WfName]>>
                        /\ st' = [st EXCEPT ![tasks[WfName]].cancelReq = TRUE]
                   ELSE /\ stops'[k].response # "stopping"
                        /\ stops'[k].signalled = <<>>
                        /\ st' = st]_vars

\* C12 witness: a stop request found no live task, slept, called cancel again
\* and signalled the run that had registered meanwhile, which ended cancelled
C12_Witness ==
    \E k \in Stops :
        /\ stops[k].response = "stopping" /\ stops[k].tries > 0
        /\ st[stops[k].signalled[1]].task = "cancelled"

\* C13: when a manual run has ended, on whichever exit path, and its handler
\* has resumed, the table holds no task for the workflow, is_running is false
\* and a second unregister changes nothing; a start is answered busy only
\* because of another run that is still live, never because of an ended one.
C13_SlotReleased ==
    [][/\ \A s \in Manual :
            (st[s].pc = "awaiting" /\ st'[s].pc = "done") =>
                /\ st'[s].response \in {"success", "failed", "CancelledError"}
                /\ tasks'[WfName] = NoTask
                /\ ~is_running(tasks', st', WfName)
                /\ unregister(tasks', WfName) = tasks'
       /\ \A s \in Manual : st[s].pc = "done" => tasks[WfName] # s
       /\ \A s \in Manual :
            (st[s].response = "" /\ st'[s].response = "busy") =>
                \E o \in Manual \ {s} :
                    /\ tasks[WfName] = o /\ st[o].pc = "awaiting"
                    /\ st[o].task \in {"pending", "running"}]_vars

\* C13 witness: one run ended cancelled, another ended with a failed step, and
\* a third start has been accepted and is running
C13_Witness ==
    \E a \in Manual, b \in Manual, c \in Manual :
        /\ st[a].response = "CancelledError" /\ st[b].response = "failed"
        /\ tasks[WfName] = c /\ Live(c)

\* The invocation i of the wrapped function raised an error of the retriable set
RetriableCall(i) ==
    /\ retry.calls[i] \in ExcClasses
    /\ ("Exception" \in retry.cfg.exceptions \/ retry.calls[i] \in retry.cfg.exceptions)

\* C14: a function that first succeeds on attempt k <= max_attempts returns that
\* success after exactly k invocations; a function that always fails with a
\* retriable error is invoked exactly max_attempts times and then the call fails.
C14_RetryCounts ==
    LET n == Len(retry.calls) IN
    /\ n <= retry.cfg.max_attempts
    /\ \A i \in 1..n : retry.calls[i] = "ok" => (i = n /\ retry.pc = "returned")
    /\ retry.pc = "returned" =>
            /\ retry.calls[n] = "ok" /\ retry.result = [id |-> n]
            /\ \A i \in 1..(n - 1) : RetriableCall(i)
    /\ \A i \in 1..n :
            (RetriableCall(i) /\ i < retry.cfg.max_attempts /\ retry.pc \in {"returned", "raised"})
                => n > i
    /\ (retry.pc = "raised" /\ \A i \in 1..n : RetriableCall(i)) =>
            n = retry.cfg.max_attempts

\* C14 witness: two retriable failures, then the third and last attempt succeeds
C14_Witness ==
    /\ retry.pc = "returned" /\ Len(retry.calls) = 3 /\ retry.cfg.max_attempts = 3
    /\ retry.result = [id |-> 3]

\* C15: an error outside the retriable set leaves the wrapper at once, with no
\* wait and no further invocation, whatever attempts remain; on exhaustion the
\* error raised is the error of the last invocation itself.
C15_ErrorsPropagate ==
    LET n == Len(retry.calls) IN
    /\ \A i \in 1..n :
            (retry.calls[i] \in ExcClasses /\ ~RetriableCall(i)) =>
                /\ i = n /\ retry.pc = "raised"
                /\ retry.error = [cls |-> retry.calls[i], id |-> i]
                /\ Len(retry.waits) = i - 1
    /\ (retry.pc = "raised" /\ n >= 1) =>
            retry.error = [cls |-> retry.calls[n], id |-> n]

\* C15 witness: a retriable failure, then an error outside the set with an
\* attempt left (the case of test_retry_async_specific_exception_only)
C15_Witness ==
    /\ retry.pc = "raised" /\ Len(retry.calls) = 2 /\ retry.cfg.max_attempts = 3
    /\ retry.calls = <<"ValueError", "TypeError">>
    /\ retry.cfg.exceptions = {"ValueError"}

\* The subworkflow step as declared: the workflow it names, its max_depth (5
\* when not given), its continue_on_error, and the chain of the run holding it
SubName ==
    LET wn == sub.r.wf.steps[1].params["workflow_name"]
    IN IF wn = AbsentV \/ wn.lit = <<>> THEN "" ELSE wn.lit[1]
SubChain == IF sub.chain = AbsentV THEN <<>> ELSE sub.chain.s
SubMaxDepth ==
    LET md == sub.r.wf.steps[1].params["max_depth"]
    IN CASE md = AbsentV -> 5
         [] md = IntV(<<"0">>) -> 0
         [] md = IntV(<<"1">>) -> 1
         [] md = IntV(<<"2">>) -> 2
         [] OTHER -> 3
SubContinue == sub.r.wf.steps[1].params["continue_on_error"] = BoolV(TRUE)
SubInChain == \E i \in DOMAIN SubChain : SubChain[i] = SubName
SubForwarded ==
    {k \in ForwardKeys : sub.r.wf.steps[1].params[k] # AbsentV}

\* C16: a call whose workflow_name is in the caller's _call_chain is rejected
\* as a cycle, a call with len(_call_chain) >= max_depth as depth exhausted,
\* before the nested workflow is loaded or run; with continue_on_error the
\* action returns success false / status failed / the message, otherwise it
\* raises and the outer step is recorded failed with the message.
C16_GuardsReject ==
    (sub.pc = "recorded" /\ SubName # "" /\ (SubInChain \/ Len(SubChain) >= SubMaxDepth)) =>
        LET msg == IF SubContinue THEN sub.outcome.result.error ELSE sub.outcome.error
            rec == sub.r.run_log.steps[1]
        IN /\ ~sub.outcome.loaded /\ ~sub.outcome.ran
           /\ sub.outcome.sub_context = NoSubContext
           /\ msg[1] = IF SubInChain THEN "Circular dependency detected: "
                       ELSE "Maximum subworkflow depth ("
           /\ IF SubContinue
              THEN /\ sub.outcome.kind = "returned"
                   /\ sub.outcome.result.success = FALSE
                   /\ sub.outcome.result.status = "failed"
                   /\ rec.status = "success"
              ELSE /\ sub.outcome.kind = "raised"
                   /\ rec.status = "failed" /\ rec.error = StrV(msg)
                   /\ sub.r.run_log.status = "failed"

\* C16 witness: a recorded call of a workflow that is second in a chain of two,
\* with max_depth larger than the chain and without continue_on_error
C16_Witness ==
    /\ sub.pc = "recorded" /\ SubInChain /\ ~SubContinue
    /\ Len(SubChain) = 2 /\ SubChain[2] = SubName /\ SubMaxDepth = 5

\* C17: in a nesting of subworkflow calls started from a top-level run no
\* workflow begins while a run of the same name is in progress higher in the
\* chain, the depth never exceeds max_depth, and a subworkflow step that calls
\* its own parent fails with a cycle error and the run ends failed.
C17_NoCyclicNesting ==
    /\ sub.outcome.ran =>
            /\ ~SubInChain /\ SubName # sub.r.wf.name
            /\ Len(SubChain) + 1 <= SubMaxDepth
    /\ (/\ sub.pc = "recorded" /\ sub.chain = AbsentV
        /\ SubName = sub.r.wf.name /\ SubName \in sub.files
        /\ ~SubContinue /\ SubMaxDepth > 0) =>
            /\ sub.r.run_log.steps[1].status = "failed"
            /\ sub.r.run_log.steps[1].error.s[1] = "Circular dependency detected: "
            /\ sub.r.run_log.status = "failed"

\* C18: the context of the nested run has exactly the built-in keys, the
\* forwarded params (without the control keys) and _call_chain = the caller's
\* chain followed by workflow_name, whatever is forwarded; no step result of
\* the parent is in it; and the nested run executes with that context.
C18_NestedContext ==
    (/\ sub.pc \notin {"idle", "called"} /\ SubName # ""
     /\ ~SubInChain /\ Len(SubChain) < SubMaxDepth /\ SubName \in sub.files) =>
        LET sc == sub.outcome.sub_context
        IN /\ DOMAIN sc = BuiltinKeys \cup {CALL_CHAIN_KEY} \cup SubForwarded
           /\ \A k \in StepIds : k \notin DOMAIN sc
           /\ sc[CALL_CHAIN_KEY].text = ListV(Append(SubChain, SubName))
           /\ sub.outcome.ran


\* The workflows the loader yields for a directory (one per file, loaded by its
\* stem), the job ids a scheduler holds for workflows, and the ids of the
\* workflows that are valid, schedule-triggered, enabled and have a valid cron
LoadedWorkflows(dir) ==
    { load_by_name(dir, f[1]).workflow :
        f \in { g \in FileIds : Exists(dir, g) /\ load_by_name(dir, g[1]).error = "" } }
Schedulable(w) == w.trigger = "schedule" /\ w.enabled /\ w.cron_ok
WorkflowJobs(s) == s.jobs \ {CleanupJob}
SchedulableJobs(dir) == { JobId(w.name) : w \in { x \in LoadedWorkflows(dir) : Schedulable(x) } }

\* C19: a step of register_workflows at startup leaves exactly one job per loaded
\* workflow that is schedule-triggered, enabled and has a valid cron expression,
\* and no job for any other workflow; the jobs are keyed by workflow name, so no
\* name has two of them.
C19_JobsMatchLoaded ==
    [][(sched.op = "" /\ sched'.op = "startup")
        => WorkflowJobs(sched') = SchedulableJobs(wfdir)]_vars

\* C20: a step of reload_workflows leaves exactly the jobs of the enabled, valid,
\* schedule-triggered definitions on disk, returns the number of workflow jobs
\* then registered, and keeps the daily retention job.
C20_ReloadMatchesDisk ==
    [][(sched.op # "" /\ sched' # sched)
        => /\ WorkflowJobs(sched') = SchedulableJobs(wfdir)
           /\ sched'.count = Cardinality(WorkflowJobs(sched'))
           /\ CleanupJob \in sched'.jobs]_vars


\* C21: a firing loads the definition that is on disk when it fires, then runs it,
\* then saves the RunLog the run returned; a failed load ends the callback with
\* no run and no journal line; a failing save is caught; the only error that
\* leaves the callback is the cancellation delivered by stop(); the callback
\* leaves the jobs of the scheduler as they were.
C21_CallbackContract ==
    [][/\ fire'.fired # fire.fired =>
            LET loaded == load_by_name(wfdir, fire'.name) IN
            IF loaded.error # ""
            THEN fire'.trace = <<"load_failed">> /\ fire'.pc = "done" /\ journal' = journal
            ELSE fire'.trace = <<"load", "run">> /\ fire'.loaded = loaded.workflow
                 /\ fire'.pc = "running"
       /\ journal' # journal =>
            /\ fire.trace = <<"load", "run">> /\ fire'.trace = <<"load", "run", "save">>
            /\ journal' = Append(journal, fire'.run_log)
            /\ fire'.run_log.workflow = fire.loaded.name
            /\ fire'.run_log.status \in {"success", "failed"}
       /\ fire'.trace \in { <<>>, <<"load_failed">>, <<"load", "run">>,
                             <<"load", "run", "save">>, <<"load", "run", "save_failed">>,
                             <<"load", "run", "cancelled">> }
       /\ fire'.escaped # "" => fire.cancelReq /\ fire'.escaped = "CancelledError"
       /\ fire'.trace # fire.trace =>
            sched'.jobs = sched.jobs /\ sched'.registered_jobs = sched.registered_jobs
      ]_vars

\* A second firing ran a definition that was disabled on disk after its
\* registration, the save of its RunLog failed, and the job is still registered
C21_Witness ==
    /\ fire.fired = 2 /\ fire.trace = <<"load", "run", "save_failed">>
    /\ fire.escaped = "" /\ ~fire.loaded.enabled /\ Len(journal) = 1
    /\ JobId(fire.name) \in sched.jobs


\* C22: start() and stop() never raise, whatever the state of the scheduler; after
\* any sequence of calls the scheduler is running iff the last call was start();
\* a stop() that shuts the scheduler down returns with the run in flight still
\* in flight.
C22_StartStopIdempotent ==
    [][/\ sched'.raised = ""
       /\ sched'.last_call = "start" => sched'.running
       /\ sched'.last_call = "stop" => ~sched'.running
       /\ (sched.running /\ ~sched'.running) => fire'.pc = fire.pc
      ]_vars

\* stop() has returned on a running scheduler while a callback was awaiting its
\* run
C22_Witness ==
    /\ sched.last_call = "stop" /\ ~sched.running
    /\ fire.pc = "running" /\ fire.cancelReq


\* C23: a step of cleanup(retention_days) deletes a file iff its stem is a date
\* strictly before the date retention_days days before now; files dated on or
\* after that date and files whose stem is no date stay; deleted_count and
\* deleted_files are exactly the files removed.
C23_CleanupByDate ==
    [][runs'.out.kind = "cleanup" =>
         LET removed == {f \in LogStems : runs.files[f].exists /\ ~runs'.files[f].exists}
         IN /\ \A f \in LogStems :
                 runs.files[f].exists =>
                   (f \in removed <=>
                      (f.kind = "date" /\ f.day < runs.now.day - runs'.out.retention_days))
            /\ \A f \in LogStems \ removed : runs'.files[f] = runs.files[f]
            /\ runs'.out.deleted_files = removed
            /\ runs'.out.deleted_count = Cardinality(removed)
      ]_vars


\* The journal records that match a filter, whatever file holds them
Matching(files, workflow_filter) ==
    { [run_id |-> <<f, i>>, workflow |-> files[f].lines[i].workflow,
       started_at |-> files[f].lines[i].started_at] :
        <<f, i>> \in { fi \in LogStems \X (1..MaxLines) :
                         /\ files[fi[1]].exists /\ fi[2] <= Len(files[fi[1]].lines)
                         /\ files[fi[1]].lines[fi[2]].kind = "run"
                         /\ (workflow_filter = NoFilter
                             \/ files[fi[1]].lines[fi[2]].workflow = workflow_filter) } }
Elements(q) == {q[i] : i \in DOMAIN q}
PageOf(fn, files, workflow_filter, limit, k) ==
    IF fn = "get_all_runs" THEN get_all_runs(files, limit, k * limit, workflow_filter)
    ELSE get_runs_for_workflow(files, workflow_filter, limit, k * limit)

\* C24: the page a query returns holds matching records only, each once, by
\* started_at descending; its i-th record is the (offset + i)-th of the matching
\* records of all files in that order, and it has min(limit, total - offset)
\* records; the count is the number of matching records; the pages at offsets
\* 0, limit, 2*limit, ... are pairwise disjoint and together hold every
\* matching record.
C24_PagesSliceSortedRuns ==
    runs.out.kind = "runs" =>
      LET M == Matching(runs.files, runs.out.filter)
          page == runs.out.page
          offset == runs.out.offset
          pages == [k \in 0..Cardinality(M) |->
                      PageOf(runs.out.fn, runs.files, runs.out.filter, runs.out.limit, k)]
      IN /\ runs.out.total = Cardinality(M)
         /\ Len(page) = IF offset >= Cardinality(M) THEN 0
                        ELSE Min(runs.out.limit, Cardinality(M) - offset)
         /\ \A i \in DOMAIN page :
               /\ page[i] \in M
               /\ Cardinality({m \in M : m.started_at > page[i].started_at}) < offset + i
               /\ offset + i <= Cardinality({m \in M : m.started_at >= page[i].started_at})
               /\ \A j \in DOMAIN page :
                     i < j => page[i] # page[j] /\ page[i].started_at >= page[j].started_at
         /\ UNION {Elements(pages[k]) : k \in DOMAIN pages} = M
         /\ \A k \in DOMAIN pages, l \in DOMAIN pages :
               k # l => Elements(pages[k]) \cap Elements(pages[l]) = {}

\* A second page of one record: a record of the newest file, ranked after a
\* record of the older file that started later; the newest file also holds a
\* line that does not parse
C24_Witness ==
    /\ runs.out.kind = "runs" /\ runs.out.offset = 1 /\ runs.out.limit = 1
    /\ runs.out.total = 2 /\ Len(runs.out.page) = 1
    /\ runs.out.page[1].run_id[1] = DateStem(MaxDay)
    /\ \E i \in DOMAIN runs.files[DateStem(MaxDay)].lines :
          runs.files[DateStem(MaxDay)].lines[i].kind = "garbage"
    /\ \E m \in Matching(runs.files, runs.out.filter) :
          m.run_id[1] = DateStem(MaxDay - 1) /\ m.started_at > runs.out.page[1].started_at


\* C25: the latest-run mapping the dashboard obtains has a key exactly for the
\* names that have a journaled run, each mapped to a run of that workflow with
\* the greatest started_at of all files, and is empty for no names.
C25_LatestMap ==
    runs.out.kind = "dashboard" =>
      /\ runs.out.raised = ""
      /\ DOMAIN runs.out.latest_map =
            {n \in runs.out.names : Matching(runs.files, n) # {}}
      /\ \A n \in DOMAIN runs.out.latest_map :
            /\ runs.out.latest_map[n] \in Matching(runs.files, n)
            /\ \A m \in Matching(runs.files, n) :
                  m.started_at <= runs.out.latest_map[n].started_at


\* C26: load_workflow never raises.  For a missing file, a text that is not
\* YAML, a document that fails the schema and an empty file it returns
\* (None, message) with a message of its own for each kind (an unreadable file
\* gets a fifth one); otherwise it returns (workflow, None).  Exactly one of the
\* two components of the result is not None.
C26_LoadReturnsPair ==
    ldr.pc \in {"loaded", "reloaded"} =>
        LET r == ldr.result
            kind == ldr.file.kind
            valid == kind = "document" /\ Workflow_validate(ldr.file.data).ok
        IN  /\ r.raised = ""
            /\ (r.workflow = NoneV) # (r.error = NoMessage)
            /\ kind = "missing" => r.error = "workflow not found"
            /\ kind = "malformed" => r.error = "YAML syntax error"
            /\ kind = "empty" => r.error = "YAML file is empty"
            /\ kind = "unreadable" => r.error = "unexpected error"
            /\ kind = "document" /\ ~valid => r.error = "validation error"
            /\ valid => r.workflow = Workflow_validate(ldr.file.data).value

\* A file that cannot be read has been loaded: the OSError became a message
C26_Witness ==
    /\ ldr.pc = "loaded"
    /\ ldr.file = Content("unreadable", StrV(<<"OSError">>))
    /\ ldr.result = Loaded(NoneV, "unexpected error", "")

\* C27: a workflow produced by the loader, saved from its in-memory form and
\* loaded again, is the same workflow, and the file still names its folder.
C27_SaveLoadRoundTrip ==
    ldr.pc = "reloaded" =>
        /\ ldr.result.workflow = ldr.first
        /\ Field(ldr.file.data.m, "folder", NoneV) = ldr.folder

\* The ids of the steps of a loaded workflow, in order
LoadedStepIds(workflow) ==
    [i \in 1..Len(workflow.m["steps"].s) |-> workflow.m["steps"].s[i].m["id"]]

\* C29: the steps of every workflow the loader returns have pairwise distinct
\* ids.
C29_DistinctStepIds ==
    ldr.result.workflow # NoneV =>
        \A i, j \in DOMAIN LoadedStepIds(ldr.result.workflow) :
            i # j => LoadedStepIds(ldr.result.workflow)[i] # LoadedStepIds(ldr.result.workflow)[j]


\* Equality of two values of possibly different types
SameValue(x, y) == x.t = y.t /\ x.s = y.s

C30_SourceOrder ==
    \A s \in Starters :
        LET r == st[s]
            recs == r.run_log.steps
            calls == r.calls
        IN  /\ Len(recs) <= Len(r.wf.steps)
            /\ \A i \in DOMAIN recs :
                  /\ recs[i].id = r.wf.steps[i].id /\ recs[i].type = r.wf.steps[i].type
                  /\ recs[i].status = "failed" => i = Len(recs)
                  /\ recs[i].status = "success" <=>
                        \E c \in DOMAIN calls : calls[c].idx = i /\ calls[c].outcome = "returned"
            /\ \A c, d \in DOMAIN calls : c < d => calls[c].idx < calls[d].idx
            /\ \A c \in DOMAIN calls : calls[c].outcome = "inflight" => c = Len(calls)
            /\ r.inflight =>
                  /\ calls # <<>> /\ calls[Len(calls)].outcome = "inflight"
                  /\ Len(recs) = calls[Len(calls)].idx - 1

\* A run of three steps has ended: the handlers of the three were invoked, the
\* first two returned and the third raised
C30_Witness ==
    \E s \in Starters :
        /\ st[s].run_log.ended /\ Len(st[s].run_log.steps) = MaxSteps
        /\ st[s].run_log.steps[1].status = "success"
        /\ st[s].run_log.steps[MaxSteps].status = "failed"
        /\ Len(st[s].calls) = MaxSteps


Compared(actual, condition) ==
    IF actual.t = "str" /\ condition.equals.t = "str"
    THEN LET left == normalize_string(actual.s, condition.trim, condition.case_insensitive)
             right == normalize_string(condition.equals.s, condition.trim,
                                       condition.case_insensitive)
         IN  IF condition.match = "contains" THEN Contains(left, right) ELSE left = right
    ELSE actual.t = condition.equals.t /\ actual.s = condition.equals.s

\* C32: a condition evaluates to "step missing" exactly when the context has no
\* entry for its step, to "field missing" exactly when the entry exists and does
\* not contain the field, and otherwise -- a field holding None, an empty
\* string or a number included -- to the comparison of the field with `equals`.
C32_WhenOutcome ==
    wh.pc = "done" =>
        LET c == wh.condition
            entry == wh.context[c.step]
            no_entry == entry.kind = "nokey"
            has_field == entry.kind = "dict" /\ c.field = "text" /\ entry.text.t # "absent"
        IN  /\ wh.out.reason = <<"condition_step_missing:", c.step>> <=> no_entry
            /\ wh.out.reason = <<"condition_field_missing:", c.field>> <=>
                  (~no_entry /\ ~has_field)
            /\ has_field => wh.out = [matched |-> Compared(entry.text, c), reason |-> <<>>]
            /\ ~has_field => ~wh.out.matched


\* A subworkflow call that passes the checks and finds the nested workflow
SubReachesRun ==
    /\ SubName # "" /\ ~SubInChain /\ Len(SubChain) < SubMaxDepth
    /\ SubName \in sub.files

\* C33: what the outer run records for a subworkflow step is the outcome of
\* the nested run: the nested run has run, and when it fails the outer step is
\* recorded failed and the outer run ends failed, unless continue_on_error is
\* set, in which case the step is recorded success with result.success false
\* and the outer run goes on.
C33_NestedFailureSurfaced ==
    (sub.pc = "recorded" /\ SubReachesRun) =>
        LET rec == sub.r.run_log.steps[1] IN
        /\ sub.outcome.ran
        /\ rec.status = "failed" => (~SubContinue /\ sub.r.run_log.status = "failed")
        /\ rec.status = "success" /\ ~sub.outcome.result.success =>
              (SubContinue /\ sub.r.run_log.status # "failed")


\* A CancelledError has reached the wrapper
CancelSeen(r) ==
    \/ r.error.cls = "CancelledError" \/ r.last_error.cls = "CancelledError"
    \/ \E i \in DOMAIN r.calls : r.calls[i] = "CancelledError"

\* C34: when the task is cancelled during an attempt or during the wait between
\* two attempts, the wrapper raises the CancelledError at that step, with no
\* further call of func and no further wait, and does nothing afterwards,
\* whatever the retriable exception classes are.
C34_CancelPropagates ==
    [][ /\ (~CancelSeen(retry) /\ CancelSeen(retry')) =>
              /\ retry'.pc = "raised" /\ retry'.error.cls = "CancelledError"
              /\ Len(retry'.calls) = Len(retry.calls)
              /\ retry'.waits = retry.waits
        /\ CancelSeen(retry) => retry' = retry ]_vars

\* The task was cancelled during the wait after a first failed attempt, with
\* two attempts left
C34_Witness ==
    /\ retry.pc = "raised" /\ retry.error.cls = "CancelledError"
    /\ retry.cfg.max_attempts = 3 /\ retry.cfg.exceptions = {"Exception"}
    /\ Len(retry.calls) = 1 /\ retry.calls[1] = "ValueError" /\ Len(retry.waits) = 1

----------------------------------------------------------------------------
(* A journal write that fails after the run has ended *)

\* C35 (manual run): a handler that has got its run's RunLog back from the task
\* answers with that RunLog's status, whether or not the journal write
\* succeeded
C35_SaveFailureKeepsOutcome ==
    \A s \in TwoStarts :
        st[s].pc = "done" /\ st[s].task = "finished"
            => st[s].response = st[s].run_log.status

----------------------------------------------------------------------------
(* A cleanup interleaved with appends *)

\* C36: no step of a cleanup, however it is interleaved with appends, removes a
\* RunLog of a file dated on or after the cutoff date of that cleanup; the file
\* of the current day is never deleted, and an append adds its RunLog to the
\* current day's file, created again when a cleanup has removed it
C36_SweepLosesNothingInWindow ==
    [][/\ \A f \in LogStems :
            /\ runs.files[f].exists /\ ~runs'.files[f].exists
                => /\ runs.out.kind = "sweep"
                   /\ strptime(f).ok
                   /\ f.day < runs.out.cutoff.day
                   /\ f.day # runs.now.day
            /\ runs.files[f].exists /\ runs'.files[f].exists
                => /\ Len(runs'.files[f].lines) >= Len(runs.files[f].lines)
                   /\ \A i \in 1..Len(runs.files[f].lines) :
                         runs'.files[f].lines[i] = runs.files[f].lines[i]
       /\ runs'.files # runs.files /\ runs'.out = runs.out /\ runs'.now = runs.now
            => /\ runs'.files[DateStem(runs.now.day)].exists
               /\ Len(runs'.files[DateStem(runs.now.day)].lines) =
                      Len(runs.files[DateStem(runs.now.day)].lines) + 1]_vars

----------------------------------------------------------------------------
(* The waits of the retry helper *)

\* C37: with max_attempts >= 2 the k-th wait of a call is delay * backoff^(k-1),
\* and the waits lie between the attempts only: while an attempt runs and once
\* the call has returned or raised there is one wait less than attempts (none
\* before the first attempt, none after the last), and during a wait as many
\* waits as attempts made.
C37_WaitsBetweenAttempts ==
    LET n == Len(retry.calls) IN
    retry.cfg.max_attempts >= 2 =>
        /\ \A k \in 1..Len(retry.waits) :
                retry.waits[k] = retry.cfg.delay * Pow(retry.cfg.backoff, k - 1)
        /\ retry.pc = "idle" => (n = 0 /\ retry.waits = <<>>)
        /\ retry.pc \in {"calling", "returned", "raised"} => Len(retry.waits) = n - 1
        /\ retry.pc = "sleeping" => (Len(retry.waits) = n /\ n < retry.cfg.max_attempts)

\* C37 witness: three attempts all failed with delay 2 and backoff 2: the two
\* waits were 2 and 4
C37_Witness ==
    /\ retry.pc = "raised" /\ retry.cfg.max_attempts = 3
    /\ retry.cfg.delay = 2 /\ retry.cfg.backoff = 2
    /\ Len(retry.calls) = 3 /\ retry.waits = <<2, 4>>

----------------------------------------------------------------------------
(* A manual start answered with "already running" *)

\* C38: the step that rejects a manual start as busy changes neither the table
\* of the run manager nor the journal; from then on the rejected start has
\* invoked no handler, has no RunLog, in the journal or elsewhere, and its task,
\* if one was created, is cancelled before it starts and cannot start.
C38_RejectedStartHasNoEffect ==
    [][\A s \in Manual :
         st'[s].response = "busy" =>
            /\ st[s].response # "busy" => (tasks' = tasks /\ journal' = journal)
            /\ st'[s] # st[s] => tasks' = tasks
            /\ st'[s].calls = <<>>
            /\ st'[s].run_log = NoRunLog
            /\ \A i \in 1..Len(journal') : journal'[i].run_id # s
            /\ st'[s].task \in {"none", "pending", "cancelled"}
            /\ st'[s].task = "pending" => st'[s].cancelReq
            /\ tasks'[WfName] # s]_vars

\* C38 witness: a start rejected by register, its task cancelled unstarted,
\* while the registered run is in a step
C38_Witness ==
    \E s, other \in Manual :
        /\ s # other
        /\ st[s].response = "busy" /\ st[s].task = "cancelled"
        /\ tasks[WfName] = other /\ st[other].task = "running" /\ st[other].inflight

----------------------------------------------------------------------------
(* The unregister of a manual run that has ended *)

\* C39: no step removes from the table of the run manager a task that is still
\* pending or running after the step: a registered live run stays registered,
\* so is_running answers true for it.
C39_UnregisterReleasesOwn ==
    [][\A s \in Manual :
         tasks[WfName] = s /\ ~Done(st'[s].task)
            => tasks'[WfName] = s /\ is_running(tasks', st', WfName)]_vars

----------------------------------------------------------------------------
(* The built-in keys of the context *)

\* C40: throughout a run every built-in key of the context holds the value it
\* was given when the run started.
C40_BuiltinKeysKept ==
    \A s \in Starters :
        st[s].context # <<>> =>
            \A k \in BuiltinKeys : st[s].context[k] = Builtin(k)

====
